---- MODULE Spec2Model ----
(***************************************************************************)
(* Migration 007-source-projects: the World Bank / NPC project import      *)
(* (migrate.py) and the ADB scraper's normalizers (scrape_adb.py).         *)
(*                                                                         *)
(* Text is modelled as a sequence of one-character strings, so that        *)
(* len(), slicing, concatenation, strip(), lower() and endswith() are      *)
(* computed as Python computes them.                                       *)
(***************************************************************************)
EXTENDS Integers, Sequences, FiniteSets, TLC

\* Python's None where a text may stand, and a dictionary key that is not there.
\* (A text is a sequence of single characters, so neither is a text.)
NULL == <<"None">>
MISSING == <<"<missing>">>

\* ------------------------------------------------------------------ text

Min(a, b) == IF a < b THEN a ELSE b

\* s[:n]
Take(s, n) == SubSeq(s, 1, Min(n, Len(s)))

\* s[n:]
Drop(s, n) == SubSeq(s, Min(n, Len(s)) + 1, Len(s))

\* c * n
Rep(c, n) == [k \in 1..n |-> c]

DigitChars == <<"0", "1", "2", "3", "4", "5", "6", "7", "8", "9">>

\* str(n) of a non-negative int
RECURSIVE Str(_)
Str(n) == IF n < 10 THEN <<DigitChars[n + 1]>>
          ELSE Str(n \div 10) \o <<DigitChars[(n % 10) + 1]>>

UpperChars == <<"A", "B", "C", "D", "E", "F", "G", "H", "I", "J", "K", "L", "M",
                "N", "O", "P", "Q", "R", "S", "T", "U", "V", "W", "X", "Y", "Z">>
LowerChars == <<"a", "b", "c", "d", "e", "f", "g", "h", "i", "j", "k", "l", "m",
                "n", "o", "p", "q", "r", "s", "t", "u", "v", "w", "x", "y", "z">>

LowerChar(c) == IF \E k \in 1..26 : UpperChars[k] = c
                THEN LowerChars[CHOOSE k \in 1..26 : UpperChars[k] = c]
                ELSE c

\* str.lower()
Lower(s) == [k \in 1..Len(s) |-> LowerChar(s[k])]

IsSpace(c) == c = " "

RECURSIVE LStrip(_)
LStrip(s) == IF s # <<>> /\ IsSpace(s[1]) THEN LStrip(Tail(s)) ELSE s

RECURSIVE RStrip(_)
RStrip(s) == IF s # <<>> /\ IsSpace(s[Len(s)]) THEN RStrip(SubSeq(s, 1, Len(s) - 1)) ELSE s

\* str.strip()
Strip(s) == RStrip(LStrip(s))

\* str.endswith(suffix)
EndsWith(s, suffix) ==
    /\ Len(suffix) <= Len(s)
    /\ SubSeq(s, Len(s) - Len(suffix) + 1, Len(s)) = suffix

\* s.replace(",", " ")
ReplaceComma(s) == [k \in 1..Len(s) |-> IF s[k] = "," THEN " " ELSE s[k]]

\* " ".join(s.split()): runs of whitespace become one space, the ends are trimmed
RECURSIVE CollapseRuns(_)
CollapseRuns(s) ==
    IF Len(s) < 2 THEN s
    ELSE IF IsSpace(s[1]) /\ IsSpace(s[2]) THEN CollapseRuns(Tail(s))
    ELSE <<s[1]>> \o CollapseRuns(Tail(s))

JoinSplit(s) == CollapseRuns(Strip(s))

\* Python truthiness of a value that is a text, None or absent
Truthy(v) == v # NULL /\ v # MISSING /\ v # <<>>

\* dict.get(key, default) on a field that holds MISSING when the key is absent
Get(v, default) == IF v = MISSING THEN default ELSE v

\* ------------------------------------------ location-name normalization

\* The suffix list of _normalize_location_name, in its order.  Devanagari
\* characters are written as their code points.
suffixes ==
    << <<"p", "r", "o", "v", "i", "n", "c", "e">>,
       <<"p", "r", "a", "d", "e", "s", "h">>,
       <<"u092A", "u094D", "u0930", "u0926", "u0947", "u0936">>,
       <<"d", "i", "s", "t", "r", "i", "c", "t">>,
       <<"u091C", "u093F", "u0932", "u094D", "u0932", "u093E">>,
       <<"m", "e", "t", "r", "o", "p", "o", "l", "i", "t", "a", "n", " ", "c", "i", "t", "y">>,
       <<"u092E", "u0939", "u093E", "u0928", "u0917", "u0930", "u092A", "u093E", "u0932", "u093F", "u0915", "u093E">>,
       <<"s", "u", "b", " ", "m", "e", "t", "r", "o", "p", "o", "l", "i", "t", "a", "n", " ", "c", "i", "t", "y">>,
       <<"s", "u", "b", "-", "m", "e", "t", "r", "o", "p", "o", "l", "i", "t", "a", "n", " ", "c", "i", "t", "y">>,
       <<"u0909", "u092A", "u092E", "u0939", "u093E", "u0928", "u0917", "u0930", "u092A", "u093E", "u0932", "u093F", "u0915", "u093E">>,
       <<"m", "u", "n", "i", "c", "i", "p", "a", "l", "i", "t", "y">>,
       <<"u0928", "u0917", "u0930", "u092A", "u093E", "u0932", "u093F", "u0915", "u093E">>,
       <<"r", "u", "r", "a", "l", " ", "m", "u", "n", "i", "c", "i", "p", "a", "l", "i", "t", "y">>,
       <<"u0917", "u093E", "u0909", "u0901", "u092A", "u093E", "u0932", "u093F", "u0915", "u093E">> >>

\* One pass of the loop body for one suffix: strip it when the text ends in it.
StripSuffix(s, suffix) ==
    IF EndsWith(s, suffix)
    THEN JoinSplit(Strip(Take(s, Len(s) - Len(suffix))))
    ELSE s

\* for suffix in suffixes: ...   (the loop has no break: it runs over the whole list)
RECURSIVE StripSuffixesFrom(_, _)
StripSuffixesFrom(s, k) ==
    IF k > Len(suffixes) THEN s
    ELSE StripSuffixesFrom(StripSuffix(s, suffixes[k]), k + 1)

_normalize_location_name(name) ==
    LET s0 == Lower(Strip(IF name = NULL THEN <<>> ELSE name))
    IN  IF s0 = <<>> THEN s0
        ELSE StripSuffixesFrom(JoinSplit(ReplaceComma(s0)), 1)

\* Pairs <<misspelling, canonical>>.
LOCATION_NAME_ALIASES ==
    << <<<<"s", "a", "n", "k", "h", "u", "w", "a", "s", "a", "v", "a">>,
          <<"s", "a", "n", "k", "h", "u", "w", "a", "s", "a", "b", "h", "a">>>>,
       <<<<"p", "a", "n", "c", "h", "t", "h", "a", "r">>,
          <<"p", "a", "c", "h", "t", "h", "a", "r">>>>,
       <<<<"m", "a", "d", "e", "s", "h">>,
          <<"m", "a", "d", "h", "e", "s", "h">>>>,
       <<<<"s", "i", "d", "h", "u", "p", "a", "l", "c", "h", "o", "w", "k">>,
          <<"s", "i", "n", "d", "h", "u", "p", "a", "l", "c", "h", "o", "k">>>>,
       <<<<"k", "a", "v", "r", "e", "p", "a", "l", "a", "n", "c", "h", "o", "w", "k">>,
          <<"k", "a", "v", "r", "e", "p", "a", "l", "a", "n", "c", "h", "o", "k">>>>,
       <<<<"m", "a", "k", "a", "w", "a", "n", "p", "u", "r">>,
          <<"m", "a", "k", "w", "a", "n", "p", "u", "r">>>>,
       <<<<"c", "h", "i", "t", "a", "w", "a", "n">>,
          <<"c", "h", "i", "t", "w", "a", "n">>>>,
       <<<<"p", "a", "r", "b", "a", "t">>,
          <<"p", "a", "r", "w", "a", "t">>>>,
       <<<<"r", "u", "k", "u", "m", "k", "o", "t">>,
          <<"e", "a", "s", "t", "e", "r", "n", " ", "r", "u", "k", "u", "m">>>>,
       <<<<"a", "r", "g", "h", "a", "k", "h", "a", "c", "h", "i">>,
          <<"a", "r", "g", "h", "a", "k", "h", "a", "n", "c", "h", "i">>>>,
       <<<<"n", "a", "w", "a", "l", "p", "a", "r", "a", "s", "i">>,
          <<"n", "a", "w", "a", "l", "p", "u", "r">>>>,
       <<<<"r", "u", "k", "u", "m">>,
          <<"w", "e", "s", "t", "e", "r", "n", " ", "r", "u", "k", "u", "m">>>>,
       <<<<"s", "u", "d", "u", "r", "p", "a", "s", "h", "c", "h", "i", "m">>,
          <<"s", "u", "d", "u", "r", " ", "p", "a", "s", "c", "h", "i", "m", "a", "n", "c", "h", "a", "l">>>>,
       <<<<"a", "c", "h", "h", "a", "m">>,
          <<"a", "c", "h", "a", "m">>>> >>

\* LOCATION_NAME_ALIASES.get(key, key)
AliasOf(key) ==
    IF \E k \in 1..Len(LOCATION_NAME_ALIASES) : LOCATION_NAME_ALIASES[k][1] = key
    THEN LOCATION_NAME_ALIASES[CHOOSE k \in 1..Len(LOCATION_NAME_ALIASES) :
                                   LOCATION_NAME_ALIASES[k][1] = key][2]
    ELSE key

\* ----------------------------------------------------------------- slugs

\* text_to_slug(name_extractor.standardize_name(title) or title): letters are
\* lowercased, a space becomes a hyphen, letters, digits and hyphens are kept
\* and every other character is dropped.
SlugChar(c) ==
    IF IsSpace(c) THEN <<"-">>
    ELSE IF \E k \in 1..26 : LowerChars[k] = LowerChar(c) THEN <<LowerChar(c)>>
    ELSE IF c = "-" \/ (\E k \in 1..10 : DigitChars[k] = c) THEN <<c>>
    ELSE <<>>

RECURSIVE text_to_slug(_)
text_to_slug(t) ==
    IF t = <<>> THEN <<>>
    ELSE IF Len(t) = 1 THEN SlugChar(t[1])
    ELSE LET h == Len(t) \div 2
         IN  text_to_slug(SubSeq(t, 1, h)) \o text_to_slug(SubSeq(t, h + 1, Len(t)))

\* The slug length limit of the entity model.
MaxSlugLen == 100

\* The length kept of an over-long slug before the "-trunc" marker.
TruncKeep == 95

\* The least base length for which a suffixed slug is rebuilt from the base.
MinBaseLen == 5

TruncMarker == <<"-", "t", "r", "u", "n", "c">>

\* slug_candidate: the slug of the title, or when that is empty or shorter than
\* 3 characters the provider prefix with the project id, or title plus place.
SlugCandidate(prefix, title, project_id, place) ==
    LET s1 == text_to_slug(title)
        parts == (IF Truthy(title) THEN <<title>> ELSE <<>>)
                 \o (IF Truthy(place) THEN <<place>> ELSE <<>>)
        joined == IF Len(parts) = 2 THEN parts[1] \o <<"-">> \o parts[2]
                  ELSE IF Len(parts) = 1 THEN parts[1] ELSE <<>>
        s2 == IF Truthy(project_id)
              THEN prefix \o <<"-">> \o text_to_slug(project_id)
              ELSE text_to_slug(joined)
        s3 == prefix \o <<"-">> \o
              text_to_slug(IF Truthy(project_id) THEN project_id ELSE <<"u", "n", "k", "n", "o", "w", "n">>)
    IN  IF Len(s1) >= 3 THEN s1
        ELSE IF Len(s2) >= 3 THEN s2
        ELSE s3

\* FinalSlug without its second "if len(final_slug) > 100".
FinalSlugMarkerOnly(slug_candidate) ==
    IF Len(slug_candidate) > MaxSlugLen
    THEN Take(slug_candidate, TruncKeep) \o TruncMarker
    ELSE slug_candidate

\* final_slug: "Ensure slug is within 100 character limit".
FinalSlug(slug_candidate) ==
    IF Len(slug_candidate) > MaxSlugLen
    THEN LET t == Take(slug_candidate, TruncKeep) \o TruncMarker
         IN  IF Len(t) > MaxSlugLen THEN Take(t, MaxSlugLen) ELSE t
    ELSE slug_candidate

\* int(datetime.now().timestamp()) as text: the clock of the run.
TimestampText == <<"1", "7", "0", "0", "0", "0", "0", "0", "0", "0">>

\* entity_data["slug"] for retry i of the collision loop.
RetrySlug(base_slug, i) ==
    LET suffix == <<"-">> \o Str(i)
        temp_slug == base_slug \o suffix
        max_base_length == MaxSlugLen - Len(suffix)
    IN  IF Len(temp_slug) > MaxSlugLen
        THEN IF max_base_length > MinBaseLen
             THEN Take(base_slug, max_base_length) \o suffix
             ELSE <<"p", "r", "o", "j", "e", "c", "t", "-">> \o TimestampText \o suffix
        ELSE temp_slug

\* ------------------------------------------------------- the entity store

\* An entity of the publication layer, which also serves as its identifier
\* (the identifier is made of entity type and slug).
Entity(slug, type) == [slug |-> slug, type |-> type]

\* None where an entity may stand.
NoEntity == Entity(<<>>, "none")

wb_slug == <<"w", "o", "r", "l", "d", "-", "b", "a", "n", "k", "-", "i", "n", "t", "e", "r", "n", "a", "t", "i", "o", "n", "a", "l", "-", "o", "r", "g", "a", "n", "i", "z", "a", "t", "i", "o", "n">>
govn_slug == <<"g", "o", "v", "e", "r", "n", "m", "e", "n", "t", "-", "o", "f", "-", "n", "e", "p", "a", "l">>

\* search_entity_by_slug(slug): the stored entity with that slug, of any type,
\* or None.
search_entity_by_slug(st, slug) ==
    IF \E e \in st : e.slug = slug THEN CHOOSE e \in st : e.slug = slug ELSE NoEntity

\* create_entity raises ValueError("... already exists") for a slug that is held.
SlugExists(st, slug) == \E e \in st : e.slug = slug

\* --------------------------------------------------------- location index

\* search_entities(entity_type="location"): the location entities of the graph,
\* in the order returned.
locations ==
    << [id |-> Entity(<<"k", "t", "m">>, "location"), sub_type |-> "district",
        names |-> << [en |-> <<"K", "a", "t", "h", "m", "a", "n", "d", "u", " ", "D", "i", "s", "t", "r", "i", "c", "t">>, ne |-> NULL] >>],
       [id |-> Entity(<<"b", "a", "g">>, "location"), sub_type |-> "province",
        names |-> << [en |-> <<"B", "a", "g", "m", "a", "t", "i", " ", "P", "r", "o", "v", "i", "n", "c", "e">>, ne |-> <<"u092C", "u093E", "u0917", "u092E", "u0924", "u0940", " ", "u092A", "u094D", "u0930", "u0926", "u0947", "u0936">>] >>],
       [id |-> Entity(<<"k", "m", "c">>, "location"), sub_type |-> "metropolitan_city",
        names |-> << [en |-> <<"K", "a", "t", "h", "m", "a", "n", "d", "u", " ", "M", "e", "t", "r", "o", "p", "o", "l", "i", "t", "a", "n", " ", "C", "i", "t", "y">>, ne |-> NULL] >>],
       [id |-> Entity(<<"s", "a", "n">>, "location"), sub_type |-> "district",
        names |-> << [en |-> <<"S", "a", "n", "k", "h", "u", "w", "a", "s", "a", "b", "h", "a">>, ne |-> NULL] >>] >>

\* None where a location entity may stand.
NoLocation == [id |-> NoEntity, sub_type |-> "none", names |-> <<>>]

MunicipalityTypes ==
    {"metropolitan_city", "sub_metropolitan_city", "municipality", "rural_municipality"}

\* The keys one location is indexed under: for each name, the lowercased full
\* text and the normalized text, for the English and the Nepali form.
KeysOfName(nm) ==
    (IF Truthy(nm.en) THEN {Lower(Strip(nm.en)), _normalize_location_name(nm.en)} ELSE {})
    \cup
    (IF Truthy(nm.ne) THEN {Lower(Strip(nm.ne)), _normalize_location_name(nm.ne)} ELSE {})

KeysOf(l) == UNION {KeysOfName(l.names[k]) : k \in 1..Len(l.names)}

InBucket(l, bucket) ==
    CASE bucket = "province" -> l.sub_type = "province"
      [] bucket = "district" -> l.sub_type = "district"
      [] bucket = "municipality" -> l.sub_type \in MunicipalityTypes
      [] OTHER -> TRUE

\* <bucket>_lookup.get(key) over the location entities locs: a later location
\* overwrites an earlier one's key.
LookupIn(locs, bucket, key) ==
    LET hits == {k \in 1..Len(locs) :
                    InBucket(locs[k], bucket) /\ key \in KeysOf(locs[k])}
    IN  IF hits = {} THEN NoLocation
        ELSE locs[CHOOSE k \in hits : \A j \in hits : j <= k]

Lookup(bucket, key) == LookupIn(locations, bucket, key)

\* a or b, on location entities
Or(a, b) == IF a # NoLocation THEN a ELSE b

\* pe: the province entity of a province name.
ResolveProvinceIn(locs, province_name) ==
    LET p_key_norm == AliasOf(_normalize_location_name(province_name))
        p_key_full == Lower(Strip(province_name))
    IN  Or(LookupIn(locs, "province", p_key_norm), LookupIn(locs, "province", p_key_full))

ResolveProvince(province_name) == ResolveProvinceIn(locations, province_name)

\* le: the entity of the primary location name.
ResolvePrimaryIn(locs, primary_loc_name) ==
    LET l_key_norm == AliasOf(_normalize_location_name(primary_loc_name))
        l_key_full == Lower(Strip(primary_loc_name))
        le == Or(LookupIn(locs, "district", l_key_norm),
                 LookupIn(locs, "municipality", l_key_norm))
    IN  IF le # NoLocation THEN le
        ELSE Or(LookupIn(locs, "district", l_key_full),
                LookupIn(locs, "municipality", l_key_full))

ResolvePrimary(primary_loc_name) == ResolvePrimaryIn(locations, primary_loc_name)

\* ---------------------------------------------------------- source records

\* The most records the source files of one migration run hold together.
MaxRecords == 2

\* The most calls of the persistence layer that fail, in one migration run,
\* with an error other than "already exists".
MaxFaults == 1

NepalText == <<"N", "e", "p", "a", "l">>
nepal == <<"n", "e", "p", "a", "l">>
NP == <<"N", "P">>

\* The "location" object of a record.
Location(country, country_code, province, district) ==
    [kind |-> "dict", country |-> country, country_code |-> country_code,
     province |-> province, district |-> district]

Record(title, project_id, location, implementing_agency) ==
    [title |-> title, project_id |-> project_id, location |-> location,
     implementing_agency |-> implementing_agency]

\* "location": null, and a record without the key "location".
NullLocation ==
    [kind |-> "null", country |-> NULL, country_code |-> NULL,
     province |-> NULL, district |-> NULL]
NoLocationKey ==
    [kind |-> "missing", country |-> MISSING, country_code |-> MISSING,
     province |-> MISSING, district |-> MISSING]

RoadTitle == <<" ", "R", "o", "a", "d", " ">>
AgencyName == <<"D", "o", "R">>

\* The records a source file may hold: a full record, a bare one whose title
\* gives too short a slug, one with no title, one of another country, one
\* whose location is null, and one whose title gives too long a slug and
\* whose province and district are not in the location index.
Records ==
    { Record(RoadTitle, <<"P", "1">>,
             Location(NepalText, NP, <<"B", "a", "g", "m", "a", "t", "i", " ", "P", "r", "o", "v", "i", "n", "c", "e">>, <<"K", "a", "t", "h", "m", "a", "n", "d", "u">>), AgencyName),
      Record(<<"a">>, <<"P", "1">>, Location(<<"N", "E", "P", "A", "L">>, MISSING, MISSING, <<>>), MISSING),
      Record(NULL, <<"P", "2">>, Location(<<"I", "N", "D", "I", "A">>, MISSING, <<>>, <<>>), AgencyName),
      Record(RoadTitle, MISSING, Location(<<"I", "n", "d", "i", "a">>, <<"I", "N">>, <<>>, <<>>), AgencyName),
      Record(RoadTitle, MISSING, NullLocation, MISSING),
      Record(Rep("a", 104), MISSING,
             Location(NepalText, NP, <<"K", "a", "r", "n", "a", "l", "i">>, <<"R", "u", "k", "u", "m">>), MISSING) }

\* The entity stores a run may start from.
InitStores ==
    { {},
      {Entity(wb_slug, "organization"), Entity(govn_slug, "organization"),
       Entity(<<"r", "o", "a", "d">>, "project")} }

\* title = (project_data.get("title") or "").strip()
TitleOf(r) == Strip(IF Truthy(r.title) THEN r.title ELSE <<>>)

\* location_info = project_data.get("location", {})
LocationInfo(r) ==
    IF r.location.kind = "missing" THEN Location(MISSING, MISSING, MISSING, MISSING)
    ELSE r.location

\* NotForNepal testing the country name only when no code is given.
NotForNepalIfUncoded(location_info) ==
    /\ Get(location_info.country_code, <<>>) = <<>>
    /\ Lower(Get(location_info.country, <<>>)) # nepal

\* country_code != "NP" and country.lower() != "nepal"
NotForNepal(location_info) ==
    /\ Get(location_info.country_code, <<>>) # NP
    /\ Lower(Get(location_info.country, <<>>)) # nepal

\* What the part of the loop body before create_entity does with a record:
\* it skips it for its title, raises, skips it for its country, or builds the
\* creation request.
Disposition(r) ==
    IF TitleOf(r) = <<>> THEN "no_title"
    ELSE IF r.location.kind = "null" THEN "raise"
    ELSE IF /\ Get(LocationInfo(r).country_code, <<>>) # NP
            /\ Get(LocationInfo(r).country, <<>>) = NULL THEN "raise"
    ELSE IF NotForNepal(LocationInfo(r)) THEN "not_nepal"
    ELSE "build"

\* ------------------------------------------------------ the migration run

VARIABLES
    pc,                       \* where migrate() stands
    source,                   \* "wb" or "npc": the import that is running
    total,                    \* len(projects) of the running import
    unread,                   \* the records of projects not yet iterated
    budget,                   \* records the source files may still hold
    local,                    \* the loop body's variables for the current record
    store,                    \* the entities of the publication layer
    rels,                     \* the relationships of the publication layer
    count,
    skipped_count,
    linked_count,
    relationships_count,
    created_entity_ids,
    created_relationship_ids,
    logs,                     \* context.log: the lines that matter, in order
    calls,                    \* the calls made to the persistence layer, in order
    faults,                   \* calls that failed with another error so far
    runs,                     \* two runs at once: each run's own pc, local, counters
    feed,                     \* the scraper: "json" or "iati", the feed being transformed
    item,                     \* the scraper: the raw project the feed delivered
    normalized,               \* the scraper: what the normalizer returned for item
    projects,                 \* the scraper: the list of transformed projects
    raw_name,                 \* the resolver: the location name a record supplies
    index,                    \* the resolver: the location entities of the graph
    name_key,                 \* the resolver: _normalize_location_name(raw_name)
    resolution,               \* the resolver: the entities the name resolves to
    project_fields,           \* the request: the optional fields of the record in hand
    entity_data,              \* the request: entity_data as create_entity receives it
    xml_data,                 \* the XML fallback: the payload in hand
    local_files,              \* the XML fallback: the local XML files of the scraper
    parses                    \* the XML fallback: the calls of parse_iati_xml, in order

counters == <<count, skipped_count, linked_count, relationships_count,
              created_entity_ids, created_relationship_ids>>

migration_vars == <<pc, source, total, unread, budget, local, store, rels, count,
                    skipped_count, linked_count, relationships_count,
                    created_entity_ids, created_relationship_ids, logs, calls, faults>>

\* What the sequential migration run leaves alone.
resolver_vars == <<raw_name, index, name_key, resolution>>
request_vars == <<project_fields, entity_data>>
fallback_vars == <<xml_data, local_files, parses>>
other_vars == <<runs, feed, item, normalized, projects, resolver_vars,
                request_vars, fallback_vars>>

\* The resolver on its own is not in play.
ResolverIdle ==
    /\ raw_name = NULL
    /\ index = <<>>
    /\ name_key = NULL
    /\ resolution = NULL

\* No creation request is being built, and no XML payload is in hand.
RequestIdle ==
    /\ project_fields = NULL
    /\ entity_data = NULL
FallbackIdle ==
    /\ xml_data = NULL
    /\ local_files = NULL
    /\ parses = <<>>

\* No record in hand.
NoRecord == Record(MISSING, MISSING, NoLocationKey, MISSING)

NoLocal ==
    [n |-> 0, implementing_agency |-> <<>>, slug |-> <<>>, base_slug |-> <<>>,
     i |-> 0, project_entity |-> NoEntity, location_id |-> NoEntity,
     province_id |-> NoEntity, org_entity |-> NoEntity, agency_entity |-> NoEntity,
     province_name |-> <<>>, location_name |-> <<>>, project_data |-> NoRecord]

\* The provider prefix of a fallback slug.
Prefix(src) == IF src = "wb" THEN <<"w", "b">> ELSE <<"n", "p", "c">>

\* The fixed slug of the funding organization of an import.
FundingSlug(src) == IF src = "wb" THEN wb_slug ELSE govn_slug

\* a or b, on texts
OrText(a, b) == IF Truthy(a) THEN a ELSE b

\* The loop body from the country filter down to the creation request: the
\* resolved locations and entity_data["slug"].
BuildLocal(r, n, src) ==
    LET info == LocationInfo(r)
        province_name == Get(info.province, <<>>)
        district_name == Get(info.district, <<>>)
        location_name == OrText(district_name, province_name)
        pe == IF Truthy(province_name) THEN ResolveProvince(province_name) ELSE NoLocation
        le == IF Truthy(location_name) THEN ResolvePrimary(location_name) ELSE NoLocation
        final_slug == FinalSlug(SlugCandidate(Prefix(src), TitleOf(r), r.project_id,
                                              location_name))
    IN  [n |-> n,
         implementing_agency |-> Get(r.implementing_agency, <<>>),
         slug |-> final_slug, base_slug |-> final_slug, i |-> 0,
         project_entity |-> NoEntity,
         location_id |-> le.id, province_id |-> pe.id,
         org_entity |-> NoEntity, agency_entity |-> NoEntity,
         province_name |-> province_name, location_name |-> location_name,
         project_data |-> r]

\* BuildLocal and Disposition of every record, computed once.
Built == [r \in Records, src \in {"wb", "npc"} |-> BuildLocal(r, 0, src)]
Dispositions == [r \in Records |-> Disposition(r)]

LogLine(kind) ==
    [kind |-> kind, source |-> source, n |-> local.n, total |-> total,
     count |-> count, skipped |-> skipped_count, linked |-> linked_count,
     relationships |-> relationships_count]

\* One call of the persistence layer, made for record n.
CallOf(n, op, slug, type, s, t, result) ==
    [op |-> op, source |-> source, n |-> n, slug |-> slug, type |-> type,
     source_entity_id |-> s, target_entity_id |-> t, result |-> result]

Call(op, slug, type, s, t, result) == CallOf(local.n, op, slug, type, s, t, result)

\* Return with migrate() ending after whichever import returns.
ReturnEndsRun == pc' = "done" /\ UNCHANGED source

\* The import function returns: migrate() goes on to the NPC import, or ends.
Return ==
    IF source = "wb" THEN source' = "npc" /\ pc' = "load"
    ELSE pc' = "done" /\ UNCHANGED source

\* "except Exception as e: context.log(ERROR ...); raise" around the loop:
\* the exception leaves the import function and migrate().
Raise ==
    /\ pc' = "raised"
    /\ logs' = Append(logs, LogLine("error"))

\* read_json and the two early returns; otherwise the counters are set up
\* and the loop starts.
Load ==
    /\ pc = "load"
    /\ \E n \in (-1)..budget :
         /\ total' = IF n < 0 THEN 0 ELSE n
         /\ unread' = total'
         /\ budget' = budget - total'
         /\ IF n <= 0
            THEN /\ logs' = Append(logs, LogLine(IF n < 0 THEN "not_found" ELSE "no_projects"))
                 /\ Return
                 /\ UNCHANGED counters
            ELSE /\ pc' = "next"
                 /\ count' = 0 /\ skipped_count' = 0 /\ linked_count' = 0
                 /\ relationships_count' = 0
                 /\ created_entity_ids' = <<>> /\ created_relationship_ids' = <<>>
                 /\ UNCHANGED <<logs, source>>
    /\ local' = NoLocal
    /\ UNCHANGED <<store, rels, calls, faults>>
    /\ UNCHANGED other_vars

\* skipped_count after a record that is not imported.
SkippedAfter(d, skipped) == IF d = "no_title" THEN skipped + 1 ELSE skipped

\* linked_count after the locations of a record are resolved: "linked_count
\* += 1" under "if le:".
LinkedAfterAlways(built, linked) == linked + 1
LinkedAfter(built, linked) ==
    IF built.location_id # NoEntity THEN linked + 1 ELSE linked

\* The head of "for project_data in projects": the next record, down to the
\* creation request.
BeginRecord ==
    /\ pc = "next"
    /\ unread > 0
    /\ \E r \in Records :
         LET d == Dispositions[r]
             n == total - unread + 1
             built == [Built[r, source] EXCEPT !.n = n]
         IN  /\ unread' = unread - 1
             /\ skipped_count' = SkippedAfter(d, skipped_count)
             /\ IF d = "build"
                THEN /\ local' = built
                     /\ linked_count' = LinkedAfter(built, linked_count)
                     /\ pc' = "create"
                     /\ UNCHANGED logs
                ELSE /\ local' = [NoLocal EXCEPT !.n = n, !.project_data = r]
                     /\ UNCHANGED linked_count
                     /\ IF d = "raise"
                        THEN Raise
                        ELSE /\ pc' = "next"
                             /\ logs' = IF d = "not_nepal"
                                        THEN Append(logs, [LogLine("not_nepal") EXCEPT !.n = n])
                                        ELSE logs
    /\ UNCHANGED <<source, total, budget, store, rels, count, relationships_count,
                   created_entity_ids, created_relationship_ids, calls, faults>>
    /\ UNCHANGED other_vars

\* The loop is over: the closing log line with the counters, and the return.
Summary ==
    /\ pc = "next"
    /\ unread = 0
    /\ logs' = Append(logs, LogLine("summary"))
    /\ Return
    /\ UNCHANGED <<total, unread, budget, local, store, rels, counters, calls, faults>>
    /\ UNCHANGED other_vars

\* A create_entity call for the project of the current record, with
\* entity_data["slug"] = local.slug.  It succeeds, or fails with "already
\* exists" when the slug is held, or fails with another error.
\* first: the call before the retry loop (the loop then starts at i = 2).
NextSuffixFromThree(first, i) == IF first THEN 3 ELSE i + 1
NextSuffix(first, i) == IF first THEN 2 ELSE i + 1

\* The call returns the new entity: it is logged and its id is retained.
CreateSucceeds ==
    /\ store' = store \cup {Entity(local.slug, "project")}
    /\ local' = [local EXCEPT !.project_entity = Entity(local.slug, "project")]
    /\ created_entity_ids' = Append(created_entity_ids, Entity(local.slug, "project"))
    /\ pc' = "loc"
    /\ calls' = Append(calls, Call("create_entity", local.slug, "project",
                                   NoEntity, NoEntity, "ok"))
    /\ UNCHANGED <<logs, faults>>

\* CreateCollides with the loop body going on to the linkages.
CreateCollidesGoesOn(first) ==
    /\ pc' = "loc"
    /\ calls' = Append(calls, Call("create_entity", local.slug, "project",
                                   NoEntity, NoEntity, "exists"))
    /\ UNCHANGED <<local, store, created_entity_ids, logs, faults>>

\* except ValueError with "already exists": the next suffixed slug is set and
\* the loop goes round.
CreateCollides(first) ==
    /\ local' = [local EXCEPT
                    !.i = NextSuffix(first, local.i),
                    !.slug = RetrySlug(local.base_slug, NextSuffix(first, local.i))]
    /\ pc' = "retry"
    /\ calls' = Append(calls, Call("create_entity", local.slug, "project",
                                   NoEntity, NoEntity, "exists"))
    /\ UNCHANGED <<store, created_entity_ids, logs, faults>>

\* CreateRaises with the error taken for a collision: the loop goes round.
CreateErrorRetried ==
    /\ faults < MaxFaults
    /\ faults' = faults + 1
    /\ calls' = Append(calls, Call("create_entity", local.slug, "project",
                                   NoEntity, NoEntity, "error"))
    /\ local' = [local EXCEPT
                    !.i = IF local.i = 0 THEN 2 ELSE local.i + 1,
                    !.slug = RetrySlug(local.base_slug,
                                       IF local.i = 0 THEN 2 ELSE local.i + 1)]
    /\ pc' = "retry"
    /\ UNCHANGED <<store, created_entity_ids, logs>>

\* Any other error: re-raised, out of the loop and out of the import.
CreateRaises ==
    /\ faults < MaxFaults
    /\ faults' = faults + 1
    /\ calls' = Append(calls, Call("create_entity", local.slug, "project",
                                   NoEntity, NoEntity, "error"))
    /\ Raise
    /\ UNCHANGED <<local, store, created_entity_ids>>

AttemptCreate(first) ==
    \/ IF SlugExists(store, local.slug) THEN CreateCollides(first) ELSE CreateSucceeds
    \/ CreateRaises

\* project_entity = await create_entity(...): the first attempt.
CreateProject ==
    /\ pc = "create"
    /\ AttemptCreate(TRUE)
    /\ UNCHANGED <<source, total, unread, budget, rels, count, skipped_count,
                   linked_count, relationships_count, created_relationship_ids>>
    /\ UNCHANGED other_vars

\* The "while True" loop: one attempt with the suffixed slug.
RetryCreate ==
    /\ pc = "retry"
    /\ AttemptCreate(FALSE)
    /\ UNCHANGED <<source, total, unread, budget, rels, count, skipped_count,
                   linked_count, relationships_count, created_relationship_ids>>
    /\ UNCHANGED other_vars

Relationship(s, t, type, intent) ==
    [source_entity_id |-> s, target_entity_id |-> t, relationship_type |-> type,
     intent |-> intent]

\* create_relationship returns: the relationship is counted and its id retained.
RelateSucceeds(s, t, type, intent) ==
    /\ rels' = Append(rels, Relationship(s, t, type, intent))
    /\ relationships_count' = relationships_count + 1
    /\ created_relationship_ids' = Append(created_relationship_ids, Len(rels) + 1)
    /\ calls' = Append(calls, Call("create_relationship", <<>>, intent, s, t, "ok"))
    /\ UNCHANGED <<logs, faults>>

\* RelateFails with the failed relationship counted all the same.
RelateFailsCounted(s, t, type, intent) ==
    /\ faults < MaxFaults
    /\ faults' = faults + 1
    /\ logs' = Append(logs, LogLine("relationship_error"))
    /\ calls' = Append(calls, Call("create_relationship", <<>>, intent, s, t, "error"))
    /\ relationships_count' = relationships_count + 1
    /\ UNCHANGED <<rels, created_relationship_ids>>

\* create_relationship raises: "except Exception" logs the error, and the loop
\* body goes on after the try block.
RelateFails(s, t, type, intent) ==
    /\ faults < MaxFaults
    /\ faults' = faults + 1
    /\ logs' = Append(logs, LogLine("relationship_error"))
    /\ calls' = Append(calls, Call("create_relationship", <<>>, intent, s, t, "error"))
    /\ UNCHANGED <<rels, relationships_count, created_relationship_ids>>

Relate(s, t, type, intent) ==
    \/ RelateSucceeds(s, t, type, intent)
    \/ RelateFails(s, t, type, intent)

\* "if location_id and location_entity": LOCATED_IN the primary location.
LinkLocation ==
    /\ pc = "loc"
    /\ IF local.location_id # NoEntity
       THEN Relate(local.project_entity, local.location_id, "LOCATED_IN", "LOCATED_IN")
       ELSE UNCHANGED <<rels, relationships_count, created_relationship_ids, calls,
                        logs, faults>>
    /\ pc' = "prov"
    /\ UNCHANGED <<source, total, unread, budget, local, store, count, skipped_count,
                   linked_count, created_entity_ids>>
    /\ UNCHANGED other_vars

\* "if province_id and province_entity": LOCATED_IN the province.
LinkProvince ==
    /\ pc = "prov"
    /\ IF local.province_id # NoEntity
       THEN Relate(local.project_entity, local.province_id, "LOCATED_IN", "LOCATED_IN_PROVINCE")
       ELSE UNCHANGED <<rels, relationships_count, created_relationship_ids, calls,
                        logs, faults>>
    /\ pc' = "fund"
    /\ UNCHANGED <<source, total, unread, budget, local, store, count, skipped_count,
                   linked_count, created_entity_ids>>
    /\ UNCHANGED other_vars

\* EndRecord without the count.
EndRecordUncounted == count' = count /\ pc' = "next"

\* The loop body is through: "count += 1", and on to the next record.
EndRecord ==
    /\ count' = count + 1
    /\ pc' = "next"

\* What the import does when creating its funding organization fails with
\* "already exists": the World Bank import gives the linkage up
\* (wb_entity = None), the NPC import looks the entity up by slug.
AfterOrgExistsGiveUp(src) == "agency"
AfterOrgExists(src) == IF src = "wb" THEN "agency" ELSE "fund_lookup"

\* "try: wb_entity / govn_entity = await create_entity(organization ...)".
FundCreate ==
    /\ pc = "fund"
    /\ \/ /\ IF SlugExists(store, FundingSlug(source))
             THEN /\ pc' = AfterOrgExists(source)
                  /\ calls' = Append(calls, Call("create_entity", FundingSlug(source),
                                                 "organization", NoEntity, NoEntity, "exists"))
                  /\ UNCHANGED <<store, local>>
             ELSE /\ store' = store \cup {Entity(FundingSlug(source), "organization")}
                  /\ local' = [local EXCEPT
                                  !.org_entity = Entity(FundingSlug(source), "organization")]
                  /\ pc' = "fund_rel"
                  /\ calls' = Append(calls, Call("create_entity", FundingSlug(source),
                                                 "organization", NoEntity, NoEntity, "ok"))
          /\ UNCHANGED <<logs, faults>>
       \/ /\ faults < MaxFaults
          /\ faults' = faults + 1
          /\ logs' = Append(logs, LogLine("relationship_error"))
          /\ calls' = Append(calls, Call("create_entity", FundingSlug(source),
                                         "organization", NoEntity, NoEntity, "error"))
          /\ pc' = "agency"
          /\ UNCHANGED <<store, local>>
    /\ UNCHANGED <<source, total, unread, budget, rels, counters>>
    /\ UNCHANGED other_vars

\* NPC only: govn_entity = await search_entity_by_slug(govn_slug).
FundLookup ==
    /\ pc = "fund_lookup"
    /\ \/ /\ local' = [local EXCEPT
                          !.org_entity = search_entity_by_slug(store, FundingSlug(source))]
          /\ pc' = IF local'.org_entity # NoEntity THEN "fund_rel" ELSE "agency"
          /\ calls' = Append(calls, Call("search_entity_by_slug", FundingSlug(source),
                                         "any", NoEntity, NoEntity,
                                         IF local'.org_entity # NoEntity THEN "ok" ELSE "none"))
          /\ UNCHANGED <<logs, faults>>
       \/ /\ faults < MaxFaults
          /\ faults' = faults + 1
          /\ logs' = Append(logs, LogLine("relationship_error"))
          /\ calls' = Append(calls, Call("search_entity_by_slug", FundingSlug(source),
                                         "any", NoEntity, NoEntity, "error"))
          /\ pc' = "agency"
          /\ UNCHANGED local
    /\ UNCHANGED <<source, total, unread, budget, store, rels, counters>>
    /\ UNCHANGED other_vars

\* "if wb_entity / govn_entity": AFFILIATED_WITH the funding organization.
FundRel ==
    /\ pc = "fund_rel"
    /\ Relate(local.project_entity, local.org_entity, "AFFILIATED_WITH", "FUNDED_BY")
    /\ pc' = "agency"
    /\ UNCHANGED <<source, total, unread, budget, local, store, count, skipped_count,
                   linked_count, created_entity_ids>>
    /\ UNCHANGED other_vars

\* "if implementing_agency": agency_entity = await search_entity_by_slug(agency_slug).
AgencySearch ==
    /\ pc = "agency"
    /\ IF ~Truthy(local.implementing_agency)
       THEN /\ EndRecord
            /\ UNCHANGED <<local, calls, logs, faults>>
       ELSE \/ /\ local' = [local EXCEPT !.agency_entity =
                               search_entity_by_slug(store, text_to_slug(local.implementing_agency))]
               /\ pc' = IF local'.agency_entity # NoEntity THEN "agency_rel" ELSE "agency_create"
               /\ calls' = Append(calls, Call("search_entity_by_slug",
                                              text_to_slug(local.implementing_agency), "any",
                                              NoEntity, NoEntity,
                                              IF local'.agency_entity # NoEntity THEN "ok" ELSE "none"))
               /\ UNCHANGED <<count, logs, faults>>
            \/ /\ faults < MaxFaults
               /\ faults' = faults + 1
               /\ logs' = Append(logs, LogLine("relationship_error"))
               /\ calls' = Append(calls, Call("search_entity_by_slug",
                                              text_to_slug(local.implementing_agency), "any",
                                              NoEntity, NoEntity, "error"))
               /\ EndRecord
               /\ UNCHANGED local
    /\ UNCHANGED <<source, total, unread, budget, store, rels, skipped_count, linked_count,
                   relationships_count, created_entity_ids, created_relationship_ids>>
    /\ UNCHANGED other_vars

\* "if not agency_entity": agency_entity = await create_entity(organization ...).
\* A failure, "already exists" too, is caught by the "except Exception" of the
\* linkage: it is logged and the record is through.
AgencyCreate ==
    /\ pc = "agency_create"
    /\ \/ /\ IF SlugExists(store, text_to_slug(local.implementing_agency))
             THEN /\ logs' = Append(logs, LogLine("relationship_error"))
                  /\ calls' = Append(calls, Call("create_entity",
                                                 text_to_slug(local.implementing_agency),
                                                 "organization", NoEntity, NoEntity, "exists"))
                  /\ EndRecord
                  /\ UNCHANGED <<store, local>>
             ELSE /\ store' = store \cup {Entity(text_to_slug(local.implementing_agency),
                                                 "organization")}
                  /\ local' = [local EXCEPT !.agency_entity =
                                  Entity(text_to_slug(local.implementing_agency), "organization")]
                  /\ pc' = "agency_rel"
                  /\ calls' = Append(calls, Call("create_entity",
                                                 text_to_slug(local.implementing_agency),
                                                 "organization", NoEntity, NoEntity, "ok"))
                  /\ UNCHANGED <<count, logs>>
          /\ UNCHANGED faults
       \/ /\ faults < MaxFaults
          /\ faults' = faults + 1
          /\ logs' = Append(logs, LogLine("relationship_error"))
          /\ calls' = Append(calls, Call("create_entity",
                                         text_to_slug(local.implementing_agency),
                                         "organization", NoEntity, NoEntity, "error"))
          /\ EndRecord
          /\ UNCHANGED <<store, local>>
    /\ UNCHANGED <<source, total, unread, budget, rels, skipped_count, linked_count,
                   relationships_count, created_entity_ids, created_relationship_ids>>
    /\ UNCHANGED other_vars

\* AFFILIATED_WITH from the agency to the project.
AgencyRel ==
    /\ pc = "agency_rel"
    /\ Relate(local.agency_entity, local.project_entity, "AFFILIATED_WITH", "IMPLEMENTS")
    /\ EndRecord
    /\ UNCHANGED <<source, total, unread, budget, local, store, skipped_count,
                   linked_count, created_entity_ids>>
    /\ UNCHANGED other_vars

Init ==
    /\ pc = "load"
    /\ source = "wb"
    /\ total = 0
    /\ unread = 0
    /\ budget = MaxRecords
    /\ local = NoLocal
    /\ store \in InitStores
    /\ rels = <<>>
    /\ count = 0
    /\ skipped_count = 0
    /\ linked_count = 0
    /\ relationships_count = 0
    /\ created_entity_ids = <<>>
    /\ created_relationship_ids = <<>>
    /\ logs = <<>>
    /\ calls = <<>>
    /\ faults = 0
    /\ runs = <<>>
    /\ feed = "none"
    /\ item = NULL
    /\ normalized = NULL
    /\ projects = <<>>
    /\ ResolverIdle
    /\ RequestIdle
    /\ FallbackIdle

vars == <<migration_vars, other_vars>>

Next ==
    \/ Load
    \/ BeginRecord
    \/ Summary
    \/ CreateProject
    \/ RetryCreate
    \/ LinkLocation
    \/ LinkProvince
    \/ FundCreate
    \/ FundLookup
    \/ FundRel
    \/ AgencySearch
    \/ AgencyCreate
    \/ AgencyRel

Spec == Init /\ [][Next]_vars

\* ------------------------------------------- the creation of one project
\*
\* The creation request of one record and its retry loop, against a store that
\* holds some of the slugs the loop will try.

\* The most candidates of a base slug the store holds at the start.
MaxHeld == 3

\* The j-th slug tried for a base slug: entity_data["slug"] of the first call,
\* then of the loop at i = j.
Candidate(b, j) == IF j = 1 THEN b ELSE RetrySlug(b, j)

InitCreate ==
    /\ pc = "create"
    /\ source \in {"wb", "npc"}
    /\ total = 1
    /\ unread = 0
    /\ budget = 0
    /\ \E r \in {x \in Records : Dispositions[x] = "build"} :
          local = [Built[r, source] EXCEPT !.n = 1]
    /\ \E held \in SUBSET (1..MaxHeld) :
          store = {Entity(Candidate(local.base_slug, j), "project") : j \in held}
    /\ rels = <<>>
    /\ count = 0
    /\ skipped_count = 0
    /\ linked_count = 0
    /\ relationships_count = 0
    /\ created_entity_ids = <<>>
    /\ created_relationship_ids = <<>>
    /\ logs = <<>>
    /\ calls = <<>>
    /\ faults = 0
    /\ runs = <<>>
    /\ feed = "none"
    /\ item = NULL
    /\ normalized = NULL
    /\ projects = <<>>
    /\ ResolverIdle
    /\ RequestIdle
    /\ FallbackIdle

NextCreate ==
    \/ CreateProject
    \/ RetryCreate

\* The event loop resumes a coroutine whose awaited call has returned or
\* raised: a step that can be taken is taken.
SpecCreate == InitCreate /\ [][NextCreate]_vars /\ WF_vars(NextCreate)

\* ------------------------------- the implementing agency of one project
\*
\* The implementing-agency linkage of one record whose project has just been
\* created, for agency names that are or are not the slug of an entity of the
\* store.

RoadAgency == <<"R", "o", "a", "d">>

\* The implementing_agency values of the record.
AgencyInputs == {AgencyName, RoadAgency, <<>>}

\* The slug the project of the record was created under.
CreatedSlugs == {<<"r", "o", "a", "d">>, RetrySlug(<<"r", "o", "a", "d">>, 2), <<"w", "b", "-", "p", "1">>}

\* What the store may hold besides the project of the record.
HeldBefore ==
    {Entity(<<"r", "o", "a", "d">>, "project"), Entity(text_to_slug(AgencyName), "organization"),
     Entity(wb_slug, "organization")}

InitAgency ==
    /\ pc = "agency"
    /\ source \in {"wb", "npc"}
    /\ total = 1
    /\ unread = 0
    /\ budget = 0
    /\ \E name \in AgencyInputs, slug \in CreatedSlugs :
          local = [NoLocal EXCEPT !.n = 1, !.implementing_agency = name,
                                  !.slug = slug, !.base_slug = slug,
                                  !.project_entity = Entity(slug, "project")]
    /\ \E held \in SUBSET HeldBefore : store = held \cup {local.project_entity}
    /\ rels = <<>>
    /\ count = 0
    /\ skipped_count = 0
    /\ linked_count = 0
    /\ relationships_count = 0
    /\ created_entity_ids = <<local.project_entity>>
    /\ created_relationship_ids = <<>>
    /\ logs = <<>>
    /\ calls = <<CallOf(1, "create_entity", local.slug, "project", NoEntity, NoEntity, "ok")>>
    /\ faults = 0
    /\ runs = <<>>
    /\ feed = "none"
    /\ item = NULL
    /\ normalized = NULL
    /\ projects = <<>>
    /\ ResolverIdle
    /\ RequestIdle
    /\ FallbackIdle

NextAgency ==
    \/ AgencySearch
    \/ AgencyCreate
    \/ AgencyRel

SpecAgency == InitAgency /\ [][NextAgency]_vars

\* ------------------------------------------ two runs against one store
\*
\* Two runs of one import work on one publication layer at once.  Each has
\* created the project of its current record and stands before the
\* implementing-agency linkage; the runs interleave at the awaits of that
\* linkage.  Each run has its own loop variables and counters.

\* The number of runs at once.
NumRuns == 2

RunIds == 1..NumRuns

\* The project a run has created for its current record.
RunProject(w) ==
    Entity(IF w = 1 THEN <<"r", "o", "a", "d">> ELSE RetrySlug(<<"r", "o", "a", "d">>, w),
           "project")

\* The implementing_agency values of the runs' records.
AgencyNames == {AgencyName, <<"M", "o", "F">>}

Run(w, agency) ==
    [pc |-> "agency",
     local |-> [NoLocal EXCEPT !.n = w, !.implementing_agency = agency,
                               !.project_entity = RunProject(w)],
     count |-> 0, relationships_count |-> 0, created_relationship_ids |-> <<>>]

RunLogLine(w, kind) ==
    [kind |-> kind, source |-> source, n |-> w, total |-> total,
     count |-> runs[w].count, skipped |-> 0, linked |-> 0,
     relationships |-> runs[w].relationships_count]

\* "count += 1" and on to the next record, for one run.
RunEndRecord(run) == [run EXCEPT !.count = @ + 1, !.pc = "next"]

\* "except Exception as e: context.log(ERROR: Failed to create IMPLEMENTS ...)".
RunCaught(w, op, slug, type, s, t, result) ==
    /\ logs' = Append(logs, RunLogLine(w, "relationship_error"))
    /\ calls' = Append(calls, CallOf(w, op, slug, type, s, t, result))
    /\ runs' = [runs EXCEPT ![w] = RunEndRecord(runs[w])]

\* What the sequential run and the scraper hold while two runs race.
race_frame ==
    <<pc, source, total, unread, budget, local, count, skipped_count, linked_count,
      relationships_count, created_entity_ids, created_relationship_ids,
      feed, item, normalized, projects, resolver_vars, request_vars, fallback_vars>>

\* agency_entity = await context.search.search_entity_by_slug(agency_slug)
RunAgencySearch(w) ==
    /\ runs[w].pc = "agency"
    /\ LET agency_slug == text_to_slug(runs[w].local.implementing_agency)
           found == search_entity_by_slug(store, agency_slug)
       IN  \/ /\ runs' = [runs EXCEPT
                             ![w].local.agency_entity = found,
                             ![w].pc = IF found # NoEntity THEN "agency_rel"
                                       ELSE "agency_create"]
              /\ calls' = Append(calls, CallOf(w, "search_entity_by_slug", agency_slug,
                                               "any", NoEntity, NoEntity,
                                               IF found # NoEntity THEN "ok" ELSE "none"))
              /\ UNCHANGED <<logs, faults>>
           \/ /\ faults < MaxFaults
              /\ faults' = faults + 1
              /\ RunCaught(w, "search_entity_by_slug", agency_slug, "any",
                           NoEntity, NoEntity, "error")
    /\ UNCHANGED <<store, rels, race_frame>>

\* "if not agency_entity": agency_entity = await create_entity(organization ...).
\* "already exists" is a ValueError, caught like any other exception.
RunAgencyCreate(w) ==
    /\ runs[w].pc = "agency_create"
    /\ LET agency_slug == text_to_slug(runs[w].local.implementing_agency)
       IN  \/ /\ IF SlugExists(store, agency_slug)
                 THEN /\ RunCaught(w, "create_entity", agency_slug, "organization",
                                   NoEntity, NoEntity, "exists")
                      /\ UNCHANGED store
                 ELSE /\ store' = store \cup {Entity(agency_slug, "organization")}
                      /\ runs' = [runs EXCEPT
                                     ![w].local.agency_entity =
                                         Entity(agency_slug, "organization"),
                                     ![w].pc = "agency_rel"]
                      /\ calls' = Append(calls, CallOf(w, "create_entity", agency_slug,
                                                       "organization", NoEntity, NoEntity,
                                                       "ok"))
                      /\ UNCHANGED logs
              /\ UNCHANGED faults
           \/ /\ faults < MaxFaults
              /\ faults' = faults + 1
              /\ RunCaught(w, "create_entity", agency_slug, "organization",
                           NoEntity, NoEntity, "error")
              /\ UNCHANGED store
    /\ UNCHANGED <<rels, race_frame>>

\* rel = await create_relationship(agency -> project), counted when it returns.
RunAgencyRel(w) ==
    /\ runs[w].pc = "agency_rel"
    /\ LET s == runs[w].local.agency_entity
           t == runs[w].local.project_entity
       IN  \/ /\ rels' = Append(rels, Relationship(s, t, "AFFILIATED_WITH", "IMPLEMENTS"))
              /\ runs' = [runs EXCEPT
                             ![w] = RunEndRecord(
                                 [runs[w] EXCEPT
                                     !.relationships_count = @ + 1,
                                     !.created_relationship_ids = Append(@, Len(rels) + 1)])]
              /\ calls' = Append(calls, CallOf(w, "create_relationship", <<>>, "IMPLEMENTS",
                                               s, t, "ok"))
              /\ UNCHANGED <<logs, faults>>
           \/ /\ faults < MaxFaults
              /\ faults' = faults + 1
              /\ RunCaught(w, "create_relationship", <<>>, "IMPLEMENTS", s, t, "error")
              /\ UNCHANGED rels
    /\ UNCHANGED <<store, race_frame>>

InitRace ==
    /\ pc = "runs"
    /\ source \in {"wb", "npc"}
    /\ total = 1
    /\ unread = 0
    /\ budget = 0
    /\ local = NoLocal
    /\ store \in { {RunProject(w) : w \in RunIds},
                   {RunProject(w) : w \in RunIds}
                       \cup {Entity(text_to_slug(AgencyName), "organization")} }
    /\ rels = <<>>
    /\ count = 0
    /\ skipped_count = 0
    /\ linked_count = 0
    /\ relationships_count = 0
    /\ created_entity_ids = <<>>
    /\ created_relationship_ids = <<>>
    /\ logs = <<>>
    /\ calls = <<>>
    /\ faults = 0
    /\ runs \in {[w \in RunIds |-> Run(w, agency[w])] : agency \in [RunIds -> AgencyNames]}
    /\ feed = "none"
    /\ item = NULL
    /\ normalized = NULL
    /\ projects = <<>>
    /\ ResolverIdle
    /\ RequestIdle
    /\ FallbackIdle

NextRace ==
    \/ \E w \in RunIds : RunAgencySearch(w)
    \/ \E w \in RunIds : RunAgencyCreate(w)
    \/ \E w \in RunIds : RunAgencyRel(w)

SpecRace == InitRace /\ [][NextRace]_vars

\* --------------------------------------------------- the ADB scraper
\*
\* The scraper turns what a feed delivers into projects of the standard
\* format: the items of the JSON API with _normalize_adb_json_project, the
\* activities parse_iati_xml read from the IATI XML with
\* _normalize_adb_project.  A value of the raw data is a text, None (NULL), or
\* a key that is not there (MISSING).

\* a or b
PyOr(a, b) == IF Truthy(a) THEN a ELSE b

\* str.upper()
UpperChar(c) ==
    IF \E k \in 1..26 : LowerChars[k] = c
    THEN UpperChars[CHOOSE k \in 1..26 : LowerChars[k] = c]
    ELSE c
Upper(s) == [k \in 1..Len(s) |-> UpperChar(s[k])]

\* sub in s
Contains(sub, s) ==
    \E k \in 0..(Len(s) - Len(sub)) : SubSeq(s, k + 1, k + Len(sub)) = sub

\* What a normalizer returns: None, or the normalized project.
None == [kind |-> "None"]

\* The normalizer has not run yet.
Pending == [kind |-> "pending"]

\* One item of the JSON API.
JsonItem(id, title, name, project_name, projectName, country_code, recipientCountry) ==
    [id |-> id, title |-> title, name |-> name, project_name |-> project_name,
     projectName |-> projectName, country_code |-> country_code,
     recipientCountry |-> recipientCountry, country |-> MISSING, description |-> MISSING,
     milestones |-> MISSING, milestone |-> MISSING]

IrrigationScheme == <<"I", "r", "r", "i", "g", "a", "t", "i", "o", "n", " ", "S", "c", "h", "e", "m", "e">>

\* The items the JSON API may deliver.
JsonItems ==
    { [JsonItem(id, title, name, project_name, projectName, country_code, recipientCountry)
          EXCEPT !.milestones = milestones] :
        milestones \in {MISSING, NULL},
        id \in {MISSING, <<>>, <<"P", "1">>},
        title \in {MISSING, <<>>, <<" ", "D", "a", "m", " ">>},
        name \in {MISSING, NULL, IrrigationScheme},
        project_name \in {MISSING, <<"P", "N">>},
        projectName \in {MISSING, <<" ">>},
        country_code \in {MISSING, <<"n", "p">>, <<"I", "N">>},
        recipientCountry \in {MISSING, NULL} }

\* project_id = id or project_id or projectId or ... or ""
JsonProjectId(project_data) == PyOr(Get(project_data.id, NULL), <<>>)

\* title = (title or name or project_name or projectName or
\*          str(project_id) if project_id else "").strip():
\* the conditional expression binds weaker than "or", so the whole chain is
\* its first branch.
JsonTitle(project_data) ==
    LET project_id == JsonProjectId(project_data)
    IN  Strip(IF Truthy(project_id)
              THEN PyOr(Get(project_data.title, NULL),
                   PyOr(Get(project_data.name, NULL),
                   PyOr(Get(project_data.project_name, NULL),
                   PyOr(Get(project_data.projectName, NULL), project_id))))
              ELSE <<>>)

\* (country_code or countryCode or recipient_country or
\*  project_data.get("recipientCountry", "")), before .upper()
JsonCountryCode(project_data) ==
    PyOr(Get(project_data.country_code, NULL), Get(project_data.recipientCountry, <<>>))

_normalize_adb_json_project(project_data) ==
    LET project_id == JsonProjectId(project_data)
        title == JsonTitle(project_data)
        country_code == JsonCountryCode(project_data)
    IN  IF country_code = NULL THEN None    \* None.upper(): caught, None returned
        ELSE IF title = <<>> THEN None
        ELSE [kind |-> "dict",
              project_id |-> project_id,
              title |-> title,
              description |-> PyOr(Get(project_data.description, NULL), <<>>),
              location |->
                  [country |-> IF Upper(country_code) = NP THEN NepalText
                               ELSE Get(project_data.country, NepalText),
                   country_code |-> IF Truthy(Upper(country_code))
                                    THEN Upper(country_code) ELSE NP],
              milestones |-> Get(project_data.milestones,
                                 Get(project_data.milestone, <<>>))]

\* One participating-org and one activity-date as parse_iati_xml builds them:
\* every key is there, an attribute the element lacks is None.
Org(role, type, name) == [ref |-> NULL, role |-> role, type |-> type, name |-> name]
ActivityDate(iso_date, type) == [iso_date |-> iso_date, type |-> type]

\* One activity as parse_iati_xml builds it.  first_text returns a stripped
\* text that is not empty, or None.
Activity(title, iati_identifier, other_identifiers, participating_orgs, activity_dates) ==
    [title |-> title, iati_identifier |-> iati_identifier, description |-> NULL,
     other_identifiers |-> other_identifiers,
     participating_orgs |-> participating_orgs,
     activity_dates |-> activity_dates, activity_status |-> <<"2">>]

\* The sequences over S of length two at most.
UpToTwo(S) == {<<>>} \cup {<<a>> : a \in S} \cup {<<a, b>> : a, b \in S}

OrgChoices ==
    { Org(<<"4">>, <<"1", "0">>, AgencyName),
      Org(<<"I", "m", "p", "l", "e", "m", "e", "n", "t", "i", "n", "g">>, NULL, <<"M", "o", "F">>),
      Org(NULL, <<"1", "0">>, AgencyName),
      Org(<<"1">>, <<"R", "e", "p", "o", "r", "t", "i", "n", "g">>, NULL) }

DateChoices ==
    { ActivityDate(<<"d", "1">>, <<"1">>),
      ActivityDate(<<"d", "2">>, <<"s", "t", "a", "r", "t", "-", "a", "c", "t", "u", "a", "l">>),
      ActivityDate(<<"d", "3">>, <<"3">>),
      ActivityDate(<<"d", "4">>, NULL) }

\* The activities parse_iati_xml may return.
Activities ==
    { [Activity(title, iati_identifier, other_identifiers, participating_orgs, activity_dates)
          EXCEPT !.activity_status = activity_status] :
        activity_status \in {<<"2">>, NULL},
        title \in {NULL, <<"D", "a", "m">>},
        iati_identifier \in {NULL, <<"N", "P", "-", "1">>},
        other_identifiers \in {<<>>, <<[ref |-> <<"P", "9">>]>>},
        participating_orgs \in UpToTwo(OrgChoices),
        activity_dates \in UpToTwo(DateChoices) }

\* What a loop of the normalizer leaves: its variables, or an exception.
Raised == [raised |-> TRUE]
Found(v) == [raised |-> FALSE, value |-> v]

role_keywords ==
    << <<"i", "m", "p", "l", "e", "m", "e", "n", "t">>,
       <<"i", "m", "p", "l", "e", "m", "e", "n", "t", "i", "n", "g">>,
       <<"e", "x", "e", "c", "u", "t", "i", "n", "g">>,
       <<"e", "x", "t", "e", "n", "d", "i", "n", "g">> >>

\* "for org in participating_orgs: role = org.get('role', '').lower() ...":
\* the key is there, so a missing attribute gives None and None.lower() raises.
RECURSIVE AgencyByRole(_, _)
AgencyByRole(participating_orgs, k) ==
    IF k > Len(participating_orgs) THEN Found(<<>>)
    ELSE IF participating_orgs[k].role = NULL THEN Raised
    ELSE IF \E j \in 1..Len(role_keywords) :
                Contains(role_keywords[j], Lower(participating_orgs[k].role))
         THEN Found(participating_orgs[k].name)
         ELSE AgencyByRole(participating_orgs, k + 1)

\* "for org in participating_orgs: org_type = org.get('type', '').lower() ...":
\* the first organization with a name whose type is not a reporting one.
RECURSIVE AgencyByType(_, _)
AgencyByType(participating_orgs, k) ==
    IF k > Len(participating_orgs) THEN Found(<<>>)
    ELSE IF participating_orgs[k].type = NULL THEN Raised
    ELSE IF /\ Truthy(participating_orgs[k].name)
            /\ ~Contains(<<"r", "e", "p", "o", "r", "t", "i", "n", "g">>,
                         Lower(participating_orgs[k].type))
         THEN Found(participating_orgs[k].name)
         ELSE AgencyByType(participating_orgs, k + 1)

ImplementingAgency(participating_orgs) ==
    LET by_role == AgencyByRole(participating_orgs, 1)
    IN  IF by_role.raised THEN Raised
        ELSE IF ~Truthy(by_role.value) /\ Len(participating_orgs) > 0
             THEN AgencyByType(participating_orgs, 1)
             ELSE by_role

\* "for date_info in activity_dates": every date is looked at, a later date of
\* one kind overwrites an earlier one.
RECURSIVE Dates(_, _, _)
Dates(activity_dates, k, so_far) ==
    IF k > Len(activity_dates) THEN Found(so_far)
    ELSE IF activity_dates[k].type = NULL THEN Raised
    ELSE LET date_type == Lower(activity_dates[k].type)
             iso_date == activity_dates[k].iso_date
         IN  Dates(activity_dates, k + 1,
                   IF ~Truthy(iso_date) THEN so_far
                   ELSE IF Contains(<<"s", "t", "a", "r", "t">>, date_type) \/ date_type = <<"1">>
                        THEN [so_far EXCEPT !.start_date = iso_date]
                   ELSE IF Contains(<<"e", "n", "d">>, date_type) \/ date_type = <<"3">>
                        THEN [so_far EXCEPT !.end_date = iso_date]
                   ELSE so_far)

status_mapping(status_code) ==
    CASE status_code = <<"1">> -> <<"P", "i", "p", "e", "l", "i", "n", "e", "/", "i", "d", "e", "n", "t", "i", "f", "i", "c", "a", "t", "i", "o", "n">>
      [] status_code = <<"2">> -> <<"I", "m", "p", "l", "e", "m", "e", "n", "t", "a", "t", "i", "o", "n">>
      [] status_code = <<"3">> -> <<"C", "o", "m", "p", "l", "e", "t", "i", "o", "n">>
      [] status_code = <<"4">> -> <<"C", "l", "o", "s", "e", "d">>
      [] status_code = <<"5">> -> <<"C", "a", "n", "c", "e", "l", "l", "e", "d">>
      [] status_code = <<"6">> -> <<"S", "u", "s", "p", "e", "n", "d", "e", "d">>
      [] OTHER -> status_code

\* project_id = (iati_identifier or other_identifiers[0].get("ref"))
\*              if other_identifiers else (None or "")
IatiProjectId(project_data) ==
    IF project_data.other_identifiers # <<>>
    THEN PyOr(project_data.iati_identifier, project_data.other_identifiers[1].ref)
    ELSE <<>>

_normalize_adb_project(project_data) ==
    LET title == Strip(PyOr(project_data.title, PyOr(project_data.iati_identifier, <<>>)))
        implementing_agency == ImplementingAgency(project_data.participating_orgs)
        dates == Dates(project_data.activity_dates, 1,
                       [start_date |-> <<>>, end_date |-> <<>>])
    IN  IF implementing_agency.raised \/ dates.raised THEN None
        ELSE IF title = <<>> THEN None
        ELSE [kind |-> "dict",
              project_id |-> IatiProjectId(project_data),
              title |-> title,
              description |-> PyOr(project_data.description, PyOr(project_data.title, <<>>)),
              implementing_agency |-> implementing_agency.value,
              start_date |-> dates.value.start_date,
              end_date |-> dates.value.end_date,
              implementation_status |-> status_mapping(project_data.activity_status)]

\* ------------------------------------------- JSON responses, ADB and NPC

\* One project object of the NPC API.
NpcItem(id, projectId, title, region, milestones) ==
    [id |-> id, projectId |-> projectId, title |-> title, region |-> region,
     milestones |-> milestones]

\* A dict with none of the fields a normalizer reads.
NoFields == NpcItem(MISSING, MISSING, MISSING, MISSING, MISSING)

\* _normalize_npc_project: None for a project without a title.
_normalize_npc_project(project_data) ==
    LET project_id == PyOr(Get(project_data.id, NULL), Get(project_data.projectId, <<>>))
        title == Strip(PyOr(Get(project_data.title, NULL), <<>>))
    IN  IF title = <<>> THEN None
        ELSE [kind |-> "dict",
              project_id |-> project_id,
              title |-> title,
              location |-> [country |-> NepalText, country_code |-> NP,
                            region |-> Get(project_data.region, <<>>)],
              funding_source |-> <<"G", "o", "v", "e", "r", "n", "m", "e", "n", "t", " ", "o", "f", " ", "N", "e", "p", "a", "l">>,
              url |-> IF Truthy(project_id)
                      THEN <<"h", "t", "t", "p", "s", ":", "/", "/", "n", "p", "b", "m", "i", "s", ".", "n", "p", "c", ".", "g", "o", "v", ".", "n", "p", "/", "p", "r", "o", "j", "e", "c", "t", "s", "/">>
                           \o project_id
                      ELSE <<>>,
              milestones |-> Get(project_data.milestones, <<>>)]

\* A parsed JSON response: a list of objects (shape "list"), or an object
\* (shape "dict") that holds a list or one object under the key `field`, or,
\* with field "none", is itself one project object whose fields are body[1].
\* success: the object's "success" key.
Response(shape, success, field, is_list, body) ==
    [shape |-> shape, success |-> success, field |-> field, is_list |-> is_list,
     body |-> body]

Responses(Items) ==
    LET CollectionKeys == {"data", "projects", "results", "items", "entities", "result"}
        lists == {<<>>} \cup {<<a>> : a \in Items} \cup {<<a, b>> : a, b \in Items}
    IN  {Response("list", "missing", "none", TRUE, body) : body \in lists}
        \cup {Response("dict", success, field, TRUE, body) :
                 success \in {"missing", "true", "false"}, field \in CollectionKeys,
                 body \in lists}
        \cup {Response("dict", success, field, FALSE, <<a>>) :
                 success \in {"missing", "true", "false"},
                 field \in CollectionKeys \cup {"none"}, a \in Items}

\* The project objects the ADB JSON API and the NPC API may deliver.
AdbObjects ==
    { JsonItem(<<"P", "1">>, <<" ", "D", "a", "m", " ">>, MISSING, MISSING, MISSING, NP, MISSING),
      JsonItem(<<"P", "2">>, MISSING, IrrigationScheme, MISSING, MISSING, MISSING, MISSING),
      JsonItem(MISSING, MISSING, MISSING, MISSING, MISSING, MISSING, MISSING) }
NpcObjects ==
    { NpcItem(<<"7">>, MISSING, <<" ", "D", "a", "m", " ">>, MISSING, <<>>),
      NpcItem(MISSING, NULL, IrrigationScheme, NULL, NULL),
      NoFields }

\* The normalized projects of a list of objects, None dropped.
AdbProjectsOf(items) ==
    SelectSeq([k \in 1..Len(items) |-> _normalize_adb_json_project(items[k])],
              LAMBDA x : x # None)
NpcProjectsOf(items) ==
    SelectSeq([k \in 1..Len(items) |-> _normalize_npc_project(items[k])],
              LAMBDA x : x # None)

possible_project_fields == {"data", "projects", "results", "items", "entities"}

\* _extract_projects_from_json_api_response: a list is normalized element by
\* element; of an object only the value under the first of the possible
\* project fields is, and an object with none of them yields nothing.
_extract_projects_from_json_api_response(json_data) ==
    IF json_data.shape = "list" THEN AdbProjectsOf(json_data.body)
    ELSE IF json_data.field \in possible_project_fields THEN AdbProjectsOf(json_data.body)
    ELSE <<>>

\* _process_fetched_data: raw_projects is data["data"], data["projects"] or,
\* for a response flagged success, data["result"], data["items"] or the object
\* itself; an object not flagged success with neither "data" nor "projects"
\* yields nothing.
_process_fetched_data(data) ==
    IF data.shape = "list" THEN NpcProjectsOf(data.body)
    ELSE IF data.field \in {"data", "projects"} THEN NpcProjectsOf(data.body)
    ELSE IF data.success # "true" THEN <<>>
    ELSE IF data.field \in {"result", "items"} THEN NpcProjectsOf(data.body)
    ELSE IF data.field = "none" THEN NpcProjectsOf(data.body)
    ELSE NpcProjectsOf(<<NoFields>>)

\* What the migration and the two runs hold while the scraper transforms.
scraper_frame == <<migration_vars, runs, resolver_vars, request_vars, fallback_vars>>

\* _extract_projects_from_json_api_response, for one item:
\* "normalized = self._normalize_adb_json_project(item)
\*  if normalized: projects.append(normalized)".
ExtractJsonItem ==
    /\ feed = "json"
    /\ normalized = Pending
    /\ normalized' = _normalize_adb_json_project(item)
    /\ projects' = IF normalized' # None THEN Append(projects, normalized') ELSE projects
    /\ UNCHANGED <<feed, item, scraper_frame>>

\* "transformed_projects = [self._normalize_adb_project(activity) ...]" and
\* "[p for p in transformed_projects if p is not None]", for one activity.
TransformActivity ==
    /\ feed = "iati"
    /\ normalized = Pending
    /\ normalized' = _normalize_adb_project(item)
    /\ projects' = IF normalized' # None THEN Append(projects, normalized') ELSE projects
    /\ UNCHANGED <<feed, item, scraper_frame>>

\* The ADB scraper's handling of one parsed JSON response.
ExtractJsonResponse ==
    /\ feed = "json_response"
    /\ normalized = Pending
    /\ projects' = _extract_projects_from_json_api_response(item)
    /\ normalized' = [kind |-> "batch"]
    /\ UNCHANGED <<feed, item, scraper_frame>>

\* The NPC scraper's handling of one parsed JSON response.
ProcessFetchedData ==
    /\ feed = "npc_response"
    /\ normalized = Pending
    /\ projects' = _process_fetched_data(item)
    /\ normalized' = [kind |-> "batch"]
    /\ UNCHANGED <<feed, item, scraper_frame>>

InitScraper ==
    /\ pc = "scraper"
    /\ source = "adb"
    /\ total = 0
    /\ unread = 0
    /\ budget = 0
    /\ local = NoLocal
    /\ store = {}
    /\ rels = <<>>
    /\ count = 0
    /\ skipped_count = 0
    /\ linked_count = 0
    /\ relationships_count = 0
    /\ created_entity_ids = <<>>
    /\ created_relationship_ids = <<>>
    /\ logs = <<>>
    /\ calls = <<>>
    /\ faults = 0
    /\ runs = <<>>
    /\ \/ feed = "json" /\ item \in JsonItems
       \/ feed = "iati" /\ item \in Activities
       \/ feed = "json_response" /\ item \in Responses(AdbObjects)
       \/ feed = "npc_response" /\ item \in Responses(NpcObjects)
    /\ normalized = Pending
    /\ projects = <<>>
    /\ ResolverIdle
    /\ RequestIdle
    /\ FallbackIdle

NextScraper ==
    \/ ExtractJsonItem
    \/ TransformActivity
    \/ ExtractJsonResponse
    \/ ProcessFetchedData

SpecScraper == InitScraper /\ [][NextScraper]_vars

\* ------------------------------------------- the XML fallback: the repair
\*
\* An XML payload is a text.  _fix_common_xml_issues and
\* _escape_text_content work on it with re.finditer, re.sub and
\* str.replace, computed here as Python computes them.

\* The least j >= i with s[j] = c, or 0 when there is none.
IndexFrom(s, c, i) ==
    IF \E j \in i..Len(s) : s[j] = c
    THEN CHOOSE j \in i..Len(s) : s[j] = c /\ \A h \in i..(j - 1) : s[h] # c
    ELSE 0

\* s[k:].startswith(prefix), k counted from 1
StartsWithAt(s, k, prefix) ==
    /\ k + Len(prefix) - 1 <= Len(s)
    /\ SubSeq(s, k, k + Len(prefix) - 1) = prefix

\* str.replace(old, new): the occurrences from the left, not overlapping
RECURSIVE Replace(_, _, _)
Replace(s, old, new) ==
    IF Len(s) < Len(old) THEN s
    ELSE IF StartsWithAt(s, 1, old) THEN new \o Replace(Drop(s, Len(old)), old, new)
    ELSE <<s[1]>> \o Replace(Tail(s), old, new)

\* "".join(f(c) for c in s)
RECURSIVE ConcatMap(_, _, _)
ConcatMap(s, f(_, _), k) ==
    IF k > Len(s) THEN <<>> ELSE f(s, k) \o ConcatMap(s, f, k + 1)

amp == <<"&", "a", "m", "p", ";">>
lt == <<"&", "l", "t", ";">>
gt == <<"&", "g", "t", ";">>
quot == <<"&", "q", "u", "o", "t", ";">>
apos == <<"&", "a", "p", "o", "s", ";">>

\* The entities _escape_text_content protects, each with its stand-in.
protected ==
    << <<amp, <<"_", "_", "_", "A", "M", "P", "_", "_", "_">>>>,
       <<lt, <<"_", "_", "_", "L", "T", "_", "_", "_">>>>,
       <<gt, <<"_", "_", "_", "G", "T", "_", "_", "_">>>>,
       <<quot, <<"_", "_", "_", "Q", "U", "O", "T", "_", "_", "_">>>>,
       <<apos, <<"_", "_", "_", "A", "P", "O", "S", "_", "_", "_">>>> >>

\* The five str.replace in a row: entity to stand-in (from = 1, to = 2), or back.
RECURSIVE ReplaceAll(_, _, _, _)
ReplaceAll(s, from, to, k) ==
    IF k > Len(protected) THEN s
    ELSE ReplaceAll(Replace(s, protected[k][from], protected[k][to]), from, to, k + 1)

HexChars == {DigitChars[k] : k \in 1..10}
              \cup {"a", "b", "c", "d", "e", "f", "A", "B", "C", "D", "E", "F"}

\* s[from:] matches  digits+ ";"  for the given set of digits
DigitsThenSemicolon(s, from, digits) ==
    LET j == IndexFrom(s, ";", from)
    IN  j > from /\ \A h \in from..(j - 1) : s[h] \in digits

\* The lookahead (?:amp|lt|gt|quot|apos|#\d+|#x[0-9a-fA-F]+); at s[k:]
EntityNameAt(s, k) ==
    \/ \E e \in 1..Len(protected) : StartsWithAt(s, k, Tail(protected[e][1]))
    \/ StartsWithAt(s, k, <<"#">>)
          /\ DigitsThenSemicolon(s, k + 1, {DigitChars[d] : d \in 1..10})
    \/ StartsWithAt(s, k, <<"#", "x">>) /\ DigitsThenSemicolon(s, k + 2, HexChars)

\* re.sub(r'&(?!(?:amp|lt|gt|quot|apos|#\d+|#x[0-9a-fA-F]+);)', '&amp;', s)
EscapeAmpersandAt(s, k) ==
    IF s[k] = "&" /\ ~EntityNameAt(s, k + 1) THEN amp ELSE <<s[k]>>

\* s.replace('<', '&lt;') and s.replace('>', '&gt;')
EscapeAngleAt(s, k) ==
    IF s[k] = "<" THEN lt ELSE IF s[k] = ">" THEN gt ELSE <<s[k]>>

_escape_text_content(text_content) ==
    LET held == ReplaceAll(text_content, 1, 2, 1)
        escaped == ConcatMap(ConcatMap(held, EscapeAmpersandAt, 1), EscapeAngleAt, 1)
    IN  ReplaceAll(escaped, 2, 1, 1)

\* The match of r'(<[^>]*>)' that re.finditer finds from last_end on: the
\* first '<' and the first '>' after it, or <<0, 0>> when there is none.
NextTag(s, last_end) ==
    LET start == IndexFrom(s, "<", last_end)
        end == IF start = 0 THEN 0 ELSE IndexFrom(s, ">", start + 1)
    IN  IF end = 0 THEN <<0, 0>> ELSE <<start, end>>

\* The loop over the matches and the remaining content after the last one.
RECURSIVE FixFrom(_, _)
FixFrom(s, last_end) ==
    LET match == NextTag(s, last_end)
    IN  IF match = <<0, 0>> THEN _escape_text_content(SubSeq(s, last_end, Len(s)))
        ELSE _escape_text_content(SubSeq(s, last_end, match[1] - 1))
                 \o SubSeq(s, match[1], match[2])
                 \o FixFrom(s, match[2] + 1)

_fix_common_xml_issues(xml_content) == FixFrom(xml_content, 1)

\* ------------------------------------------- the XML fallback: the parser
\*
\* ET.fromstring on the payloads of this model: elements with attributes
\* written name="value", a default namespace declared with xmlns="...",
\* character data with the five named entities and decimal character
\* references, and no declaration, comment or CDATA section.  An element is
\* its tag ("{namespace}name" in a namespace), its attributes, its text (the
\* character data before its first child, None when there is none) and
\* its children.

Element(tag, attrib, text, children) ==
    [tag |-> tag, attrib |-> attrib, text |-> text, children |-> children]

\* None where an element may stand.
NoElement == Element(NULL, <<>>, NULL, <<>>)

\* What stands for a text, and for the document element, when the payload
\* is not well-formed and ET.fromstring raises ParseError.
ParseError == <<"<ParseError>">>
NotWellFormed == Element(ParseError, <<>>, NULL, <<>>)

NameChars ==
    {LowerChars[k] : k \in 1..26} \cup {UpperChars[k] : k \in 1..26}
        \cup {DigitChars[k] : k \in 1..10} \cup {"-", "_", ".", ":"}

IsName(s) ==
    /\ s # <<>>
    /\ \A k \in 1..Len(s) : s[k] \in NameChars
    /\ s[1] \notin {DigitChars[k] : k \in 1..10} \cup {"-", "."}

\* The character a reference stands for; references to other characters than
\* these are not in the payloads.
References ==
    << <<<<"a", "m", "p">>, "&">>, <<<<"l", "t">>, "<">>, <<<<"g", "t">>, ">">>,
       <<<<"q", "u", "o", "t">>, "\"">>, <<<<"a", "p", "o", "s">>, "'">>,
       <<<<"#", "3", "8">>, "&">>, <<<<"#", "6", "0">>, "<">>, <<<<"#", "6", "2">>, ">">> >>

\* Character data with its references resolved, or ParseError: a '&' that
\* starts no reference is not well-formed.
RECURSIVE Unescape(_)
Unescape(s) ==
    IF s = <<>> THEN <<>>
    ELSE IF s[1] # "&"
         THEN LET rest == Unescape(Tail(s))
              IN  IF rest = ParseError THEN ParseError ELSE <<s[1]>> \o rest
    ELSE LET j == IndexFrom(s, ";", 2)
             name == SubSeq(s, 2, j - 1)
         IN  IF j = 0 \/ ~\E r \in 1..Len(References) : References[r][1] = name
             THEN ParseError
             ELSE LET rest == Unescape(Drop(s, j))
                  IN  IF rest = ParseError THEN ParseError
                      ELSE <<References[CHOOSE r \in 1..Len(References) :
                                            References[r][1] = name][2]>> \o rest

\* The markup and the character data of a payload, in order.  A '<' with no
\* '>' after it, or with another '<' before the '>', is not well-formed.
RECURSIVE Tokens(_, _)
Tokens(s, i) ==
    IF i > Len(s) THEN <<>>
    ELSE IF s[i] = "<"
         THEN LET j == IndexFrom(s, ">", i + 1)
              IN  IF j = 0 \/ IndexFrom(SubSeq(s, i + 1, j - 1), "<", 1) # 0
                  THEN << [kind |-> "bad", body |-> <<>>] >>
                  ELSE << [kind |-> "tag", body |-> SubSeq(s, i + 1, j - 1)] >>
                           \o Tokens(s, j + 1)
    ELSE LET j == IndexFrom(s, "<", i)
             end == IF j = 0 THEN Len(s) ELSE j - 1
         IN  << [kind |-> "text", body |-> SubSeq(s, i, end)] >> \o Tokens(s, end + 1)

\* s.split()
RECURSIVE Words(_)
Words(s) ==
    LET t == LStrip(s)
        j == IndexFrom(t, " ", 1)
    IN  IF t = <<>> THEN <<>>
        ELSE IF j = 0 THEN <<t>>
        ELSE <<SubSeq(t, 1, j - 1)>> \o Words(Drop(t, j))

\* One attribute name="value", its '=' at word[j], as <<name, value>>, or
\* ParseError.
AttributeAt(word, j) ==
    IF j < 2 \/ Len(word) < j + 2 \/ word[j + 1] # "\"" \/ word[Len(word)] # "\""
       \/ ~IsName(SubSeq(word, 1, j - 1))
       \/ Unescape(SubSeq(word, j + 2, Len(word) - 1)) = ParseError
    THEN ParseError
    ELSE <<SubSeq(word, 1, j - 1), Unescape(SubSeq(word, j + 2, Len(word) - 1))>>

AttributeOf(word) == AttributeAt(word, IndexFrom(word, "=", 1))

xmlns == <<"x", "m", "l", "n", "s">>

\* elem.get(key)
GetAttribute(elem, key) ==
    IF \E k \in 1..Len(elem.attrib) : elem.attrib[k][1] = key
    THEN elem.attrib[CHOOSE k \in 1..Len(elem.attrib) : elem.attrib[k][1] = key][2]
    ELSE NULL

\* The markup between '<' and '>': a start tag, an end tag or an
\* empty-element tag, with its name and its attributes.
KindOf(body) ==
    IF body # <<>> /\ body[1] = "/" THEN "end"
    ELSE IF body # <<>> /\ body[Len(body)] = "/" THEN "empty" ELSE "start"

Inner(body) ==
    IF KindOf(body) = "end" THEN Tail(body)
    ELSE IF KindOf(body) = "empty" THEN SubSeq(body, 1, Len(body) - 1) ELSE body

TagWith(kind, words, attrib) ==
    IF \/ words = <<>> \/ ~IsName(words[1])
       \/ kind = "end" /\ Len(words) > 1
       \/ \E k \in 1..Len(attrib) : attrib[k] = ParseError
    THEN [kind |-> "bad"]
    ELSE [kind |-> kind, name |-> words[1], attrib |-> attrib]

TagOfWords(kind, inner, words) ==
    IF inner # <<>> /\ inner[1] = " " THEN [kind |-> "bad"]
    ELSE TagWith(kind, words, [k \in 1..(Len(words) - 1) |-> AttributeOf(words[k + 1])])

TagOf(body) == TagOfWords(KindOf(body), Inner(body), Words(Inner(body)))

\* An element that is open: its name as written, its namespace, and what it
\* holds so far.
Open(tag, ns) ==
    [name |-> tag.name, ns |-> ns,
     elem |-> Element(IF ns = <<>> THEN tag.name ELSE <<"{">> \o ns \o <<"}">> \o tag.name,
                      SelectSeq(tag.attrib, LAMBDA a : a[1] # xmlns), NULL, <<>>)]

\* The namespace of an element: the one it declares, or its parent's.
NamespaceOf(tag, stack) ==
    IF \E k \in 1..Len(tag.attrib) : tag.attrib[k][1] = xmlns
    THEN tag.attrib[CHOOSE k \in 1..Len(tag.attrib) : tag.attrib[k][1] = xmlns][2]
    ELSE IF stack = <<>> THEN <<>> ELSE stack[Len(stack)].ns

\* stack with elem appended to the children of its last element
WithChild(stack, elem) ==
    [stack EXCEPT ![Len(stack)].elem.children = Append(@, elem)]

\* stack with character data added to its last element: to its text before
\* the first child; after a child it is the tail of that child.
WithText(stack, data) ==
    IF stack[Len(stack)].elem.children # <<>> THEN stack
    ELSE [stack EXCEPT ![Len(stack)].elem.text = IF @ = NULL THEN data ELSE @ \o data]

\* The tree builder: the elements that are open, the document element once
\* it is closed, and whether the payload is well-formed so far.
Builder(stack, root) == [stack |-> stack, root |-> root, ok |-> TRUE]
Failed == [stack |-> <<>>, root |-> NoElement, ok |-> FALSE]

\* The builder after character data.
TextStep(b, data) ==
    IF data = ParseError THEN Failed
    ELSE IF b.stack = <<>> THEN IF Strip(data) = <<>> THEN b ELSE Failed
    ELSE Builder(WithText(b.stack, data), b.root)

\* The builder after a tag; last is the number of open elements.
TagStep(b, tag, last) ==
    IF tag.kind = "bad" THEN Failed
    ELSE IF tag.kind = "end"
         THEN IF last = 0 \/ b.stack[last].name # tag.name THEN Failed
              ELSE IF last = 1 THEN Builder(<<>>, b.stack[1].elem)
              ELSE Builder(WithChild(SubSeq(b.stack, 1, last - 1), b.stack[last].elem), b.root)
    ELSE IF last = 0 /\ b.root # NoElement THEN Failed
    ELSE IF tag.kind = "start"
         THEN Builder(Append(b.stack, Open(tag, NamespaceOf(tag, b.stack))), b.root)
    ELSE IF last = 0 THEN Builder(<<>>, Open(tag, NamespaceOf(tag, b.stack)).elem)
    ELSE Builder(WithChild(b.stack, Open(tag, NamespaceOf(tag, b.stack)).elem), b.root)

\* The builder after one more token.
Step(b, token) ==
    IF ~b.ok \/ token.kind = "bad" THEN Failed
    ELSE IF token.kind = "text" THEN TextStep(b, Unescape(token.body))
    ELSE TagStep(b, TagOf(token.body), Len(b.stack))

\* The builder after tokens[lo..hi], fed in their order.
RECURSIVE Feed(_, _, _, _)
Feed(b, tokens, lo, hi) ==
    IF lo > hi THEN b
    ELSE IF lo = hi THEN Step(b, tokens[lo])
    ELSE Feed(Feed(b, tokens, lo, (lo + hi) \div 2), tokens, ((lo + hi) \div 2) + 1, hi)

\* The document element when the last token is read.
DocumentElement(b) == IF b.ok /\ b.stack = <<>> /\ b.root # NoElement THEN b.root ELSE NotWellFormed

FeedAll(tokens) == Feed(Builder(<<>>, NoElement), tokens, 1, Len(tokens))

\* ET.fromstring(xml_text): the document element, or NotWellFormed when it
\* raises ParseError.
fromstring(xml_text) == DocumentElement(FeedAll(Tokens(xml_text, 1)))

\* ------------------------------------- the XML fallback: parse_iati_xml

\* tag.split('}')[-1] if '}' in tag else tag
RECURSIVE localname(_)
localname(tag) ==
    LET j == IndexFrom(tag, "}", 1)
    IN  IF j = 0 THEN tag ELSE localname(Drop(tag, j))

\* The first element with this tag among the elements and their
\* descendants, in document order, or NoElement.
RECURSIVE FindAmong(_, _, _)
FindAmong(elems, k, tag) ==
    IF k > Len(elems) THEN NoElement
    ELSE IF elems[k].tag = tag THEN elems[k]
    ELSE LET below == FindAmong(elems[k].children, 1, tag)
         IN  IF below # NoElement THEN below ELSE FindAmong(elems, k + 1, tag)

\* elem.find('.//' + tag): the match is on the whole tag
Find(elem, tag) == FindAmong(elem.children, 1, tag)

\* "t.strip() if t and t.strip() else None"
StrippedOrNone(t) == IF t # NULL /\ Strip(t) # <<>> THEN Strip(t) ELSE NULL

first_text(elem) ==
    IF elem = NoElement THEN NULL
    ELSE LET narr == Find(elem, <<"n", "a", "r", "r", "a", "t", "i", "v", "e">>)
         IN  IF narr # NoElement /\ StrippedOrNone(narr.text) # NULL
             THEN StrippedOrNone(narr.text)
             ELSE StrippedOrNone(elem.text)

\* [c for c in elem if localname(c.tag) == name]
ChildrenNamed(elem, name) == SelectSeq(elem.children, LAMBDA c : localname(c.tag) = name)

\* next((c for c in elem if localname(c.tag) == name), None)
FirstChild(elem, name) ==
    LET named == ChildrenNamed(elem, name)
    IN  IF named = <<>> THEN NoElement ELSE named[1]

\* elem.get(key) if elem is not None else None
CodeOf(elem, key) == IF elem = NoElement THEN NULL ELSE GetAttribute(elem, key)

code_key == <<"c", "o", "d", "e">>
ref_key == <<"r", "e", "f">>
type_key == <<"t", "y", "p", "e">>

\* One entry of activity['locations'], without the coordinates.
LocationOf(loc) ==
    [name |-> first_text(Find(loc, <<"n", "a", "m", "e">>)),
     location_id |-> CodeOf(FirstChild(loc, <<"l", "o", "c", "a", "t", "i", "o", "n", "-", "i", "d">>), code_key),
     exactness |-> CodeOf(Find(loc, <<"e", "x", "a", "c", "t", "n", "e", "s", "s">>), code_key),
     reach |-> CodeOf(FirstChild(loc, <<"l", "o", "c", "a", "t", "i", "o", "n", "-", "r", "e", "a", "c", "h">>), code_key)]

\* activity['contact']
ContactOf(contact) ==
    IF contact = NoElement THEN NULL
    ELSE [organisation |-> first_text(Find(contact, <<"o", "r", "g", "a", "n", "i", "s", "a", "t", "i", "o", "n">>)),
          person_name |-> first_text(Find(contact, <<"p", "e", "r", "s", "o", "n", "-", "n", "a", "m", "e">>)),
          website |-> first_text(Find(contact, <<"w", "e", "b", "s", "i", "t", "e">>))]

\* The body of "for act in root": one activity, without its currency,
\* hierarchy, update time, sectors and policy markers.
ActivityOf(act) ==
    LET rep == FirstChild(act, <<"r", "e", "p", "o", "r", "t", "i", "n", "g", "-", "o", "r", "g">>)
        participating == ChildrenNamed(act, <<"p", "a", "r", "t", "i", "c", "i", "p", "a", "t", "i", "n", "g", "-", "o", "r", "g">>)
        others == ChildrenNamed(act, <<"o", "t", "h", "e", "r", "-", "i", "d", "e", "n", "t", "i", "f", "i", "e", "r">>)
        dates == ChildrenNamed(act, <<"a", "c", "t", "i", "v", "i", "t", "y", "-", "d", "a", "t", "e">>)
        locs == ChildrenNamed(act, <<"l", "o", "c", "a", "t", "i", "o", "n">>)
    IN  [iati_identifier |-> first_text(FirstChild(act, <<"i", "a", "t", "i", "-", "i", "d", "e", "n", "t", "i", "f", "i", "e", "r">>)),
         reporting_org_narrative |-> IF rep = NoElement THEN MISSING ELSE first_text(rep),
         title |-> first_text(FirstChild(act, <<"t", "i", "t", "l", "e">>)),
         description |-> first_text(FirstChild(act, <<"d", "e", "s", "c", "r", "i", "p", "t", "i", "o", "n">>)),
         participating_orgs |->
             [k \in 1..Len(participating) |->
                 [ref |-> GetAttribute(participating[k], ref_key),
                  role |-> GetAttribute(participating[k], <<"r", "o", "l", "e">>),
                  type |-> GetAttribute(participating[k], type_key),
                  name |-> first_text(participating[k])]],
         other_identifiers |->
             [k \in 1..Len(others) |->
                 [ref |-> GetAttribute(others[k], ref_key),
                  type |-> GetAttribute(others[k], type_key),
                  owner_org |-> first_text(Find(others[k], <<"o", "w", "n", "e", "r", "-", "o", "r", "g">>))]],
         activity_status |-> CodeOf(FirstChild(act, <<"a", "c", "t", "i", "v", "i", "t", "y", "-", "s", "t", "a", "t", "u", "s">>), code_key),
         activity_dates |->
             [k \in 1..Len(dates) |->
                 [iso_date |-> GetAttribute(dates[k], <<"i", "s", "o", "-", "d", "a", "t", "e">>),
                  type |-> GetAttribute(dates[k], type_key)]],
         contact |-> ContactOf(FirstChild(act, <<"c", "o", "n", "t", "a", "c", "t", "-", "i", "n", "f", "o">>)),
         recipient_country |-> CodeOf(FirstChild(act, <<"r", "e", "c", "i", "p", "i", "e", "n", "t", "-", "c", "o", "u", "n", "t", "r", "y">>), code_key),
         locations |-> [k \in 1..Len(locs) |-> LocationOf(locs[k])]]

\* "for act in root: if localname(act.tag) != 'iati-activity': continue"
ActivitiesOf(acts) == [k \in 1..Len(acts) |-> ActivityOf(acts[k])]

ActivitiesUnder(root) ==
    IF root = NotWellFormed THEN Raised
    ELSE Found(ActivitiesOf(ChildrenNamed(root, <<"i", "a", "t", "i", "-", "a", "c", "t", "i", "v", "i", "t", "y">>)))

\* parse_iati_xml(xml_text): the activities, or the ParseError of
\* ET.fromstring.
parse_iati_xml(xml_text) == ActivitiesUnder(fromstring(xml_text))

\* ------------------------------------------ the XML fallback: the steps
\*
\* _fetch_projects_from_adb_api after every JSON URL has failed: the IATI
\* XML feed is requested, and _load_from_local_file is the last resort.

\* The activities a payload may hold, as the elements inside its root.
NarrativeTitle == 
    << "<", "i", "a", "t", "i", "-", "a", "c", "t", "i", "v", "i", "t", "y", ">", "<", "t", "i",
       "t", "l", "e", ">", "<", "n", "a", "r", "r", "a", "t", "i", "v", "e", ">", "D", "a", "m",
       "<", "/", "n", "a", "r", "r", "a", "t", "i", "v", "e", ">", "<", "/", "t", "i", "t", "l",
       "e", ">", "<", "/", "i", "a", "t", "i", "-", "a", "c", "t", "i", "v", "i", "t", "y", ">" >>
PlainTitle == 
    << "<", "i", "a", "t", "i", "-", "a", "c", "t", "i", "v", "i", "t", "y", ">", "<", "i", "a",
       "t", "i", "-", "i", "d", "e", "n", "t", "i", "f", "i", "e", "r", ">", "N", "P", "-", "1",
       "<", "/", "i", "a", "t", "i", "-", "i", "d", "e", "n", "t", "i", "f", "i", "e", "r", ">",
       "<", "t", "i", "t", "l", "e", ">", "D", "a", "m", "<", "/", "t", "i", "t", "l", "e", ">",
       "<", "a", "c", "t", "i", "v", "i", "t", "y", "-", "s", "t", "a", "t", "u", "s", " ", "c",
       "o", "d", "e", "=", "\"", "2", "\"", "/", ">", "<", "/", "i", "a", "t", "i", "-", "a", "c",
       "t", "i", "v", "i", "t", "y", ">" >>
WithLocation == 
    << "<", "i", "a", "t", "i", "-", "a", "c", "t", "i", "v", "i", "t", "y", ">", "<", "t", "i",
       "t", "l", "e", ">", "D", "a", "m", "<", "/", "t", "i", "t", "l", "e", ">", "<", "l", "o",
       "c", "a", "t", "i", "o", "n", ">", "<", "n", "a", "m", "e", ">", "<", "n", "a", "r", "r",
       "a", "t", "i", "v", "e", ">", "R", "u", "k", "u", "m", "<", "/", "n", "a", "r", "r", "a",
       "t", "i", "v", "e", ">", "<", "/", "n", "a", "m", "e", ">", "<", "e", "x", "a", "c", "t",
       "n", "e", "s", "s", " ", "c", "o", "d", "e", "=", "\"", "1", "\"", "/", ">", "<", "/", "l",
       "o", "c", "a", "t", "i", "o", "n", ">", "<", "/", "i", "a", "t", "i", "-", "a", "c", "t",
       "i", "v", "i", "t", "y", ">" >>
WithContact == 
    << "<", "i", "a", "t", "i", "-", "a", "c", "t", "i", "v", "i", "t", "y", ">", "<", "t", "i",
       "t", "l", "e", ">", "D", "a", "m", "<", "/", "t", "i", "t", "l", "e", ">", "<", "p", "a",
       "r", "t", "i", "c", "i", "p", "a", "t", "i", "n", "g", "-", "o", "r", "g", " ", "r", "o",
       "l", "e", "=", "\"", "4", "\"", " ", "t", "y", "p", "e", "=", "\"", "1", "0", "\"", ">",
       "<", "n", "a", "r", "r", "a", "t", "i", "v", "e", ">", "D", "o", "R", "<", "/", "n", "a",
       "r", "r", "a", "t", "i", "v", "e", ">", "<", "/", "p", "a", "r", "t", "i", "c", "i", "p",
       "a", "t", "i", "n", "g", "-", "o", "r", "g", ">", "<", "c", "o", "n", "t", "a", "c", "t",
       "-", "i", "n", "f", "o", ">", "<", "w", "e", "b", "s", "i", "t", "e", ">", "w", "<", "/",
       "w", "e", "b", "s", "i", "t", "e", ">", "<", "/", "c", "o", "n", "t", "a", "c", "t", "-",
       "i", "n", "f", "o", ">", "<", "/", "i", "a", "t", "i", "-", "a", "c", "t", "i", "v", "i",
       "t", "y", ">" >>
BareAmpersand == 
    << "<", "i", "a", "t", "i", "-", "a", "c", "t", "i", "v", "i", "t", "y", ">", "<", "t", "i",
       "t", "l", "e", ">", "A", " ", "&", " ", "B", " ", ">", " ", "C", "<", "/", "t", "i", "t",
       "l", "e", ">", "<", "/", "i", "a", "t", "i", "-", "a", "c", "t", "i", "v", "i", "t", "y",
       ">" >>
BareAndEscaped == 
    << "<", "i", "a", "t", "i", "-", "a", "c", "t", "i", "v", "i", "t", "y", ">", "<", "t", "i",
       "t", "l", "e", ">", "R", "&", "a", "m", "p", ";", "D", " ", "&", "#", "3", "8", ";", " ",
       "&", "l", "t", ";", "x", "&", "g", "t", ";", " ", "&", " ", "y", "<", "/", "t", "i", "t",
       "l", "e", ">", "<", "/", "i", "a", "t", "i", "-", "a", "c", "t", "i", "v", "i", "t", "y",
       ">" >>
BareLessThan == 
    << "<", "i", "a", "t", "i", "-", "a", "c", "t", "i", "v", "i", "t", "y", ">", "<", "t", "i",
       "t", "l", "e", ">", "A", " ", "<", " ", "B", " ", "&", " ", "C", "<", "/", "t", "i", "t",
       "l", "e", ">", "<", "/", "i", "a", "t", "i", "-", "a", "c", "t", "i", "v", "i", "t", "y",
       ">" >>
StandInText == 
    << "<", "i", "a", "t", "i", "-", "a", "c", "t", "i", "v", "i", "t", "y", ">", "<", "t", "i",
       "t", "l", "e", ">", "_", "_", "_", "A", "M", "P", "&", "a", "m", "p", ";", " ", "&", " ",
       "x", "<", "/", "t", "i", "t", "l", "e", ">", "<", "/", "i", "a", "t", "i", "-", "a", "c",
       "t", "i", "v", "i", "t", "y", ">" >>

\* A document without a namespace, and one whose root declares a default
\* namespace, so that every element is in it.
Document(content) == <<"<", "r", ">">> \o content \o <<"<", "/", "r", ">">>
InNamespace(xml_text) == <<"<", "r">> \o <<" ", "x", "m", "l", "n", "s", "=", "\"", "u", "\"">> \o Drop(xml_text, 2)

\* The well-formed documents, and the payloads that are not well-formed.
Documents == {Document(c) : c \in {NarrativeTitle, PlainTitle, WithLocation, WithContact}}
CostBenefit == 
    << "<", "d", "e", "s", "c", ">", "C", "o", "s", "t", " ", "&", " ", "b", "e", "n", "e", "f",
       "i", "t", " ", ">", " ", "a", "n", "a", "l", "y", "s", "i", "s", "<", "/", "d", "e", "s",
       "c", ">" >>
Malformed ==
    {Document(c) : c \in {BareAmpersand, BareAndEscaped, BareLessThan, StandInText}}
        \cup {CostBenefit}

\* What the feed may deliver, and what a local file may hold.
Payloads == Documents \cup {InNamespace(d) : d \in Documents} \cup Malformed
LocalPayloads == {Document(PlainTitle), InNamespace(Document(WithLocation))} \cup Malformed

\* The repair pass on every payload the model holds, and parse_iati_xml on
\* every text it is called on, each computed once.
Repairs == {<<d, _fix_common_xml_issues(d)>> : d \in Payloads}
Repaired(xml_content) == (CHOOSE e \in Repairs : e[1] = xml_content)[2]
Results == {<<d, parse_iati_xml(d)>> : d \in Payloads \cup {e[2] : e \in Repairs}}
Result(xml_text) == (CHOOSE e \in Results : e[1] = xml_text)[2]

\* One call of parse_iati_xml: the text it was given, where the text came
\* from, whether it is the output of the repair pass, and what the call
\* returned (None when it raised).
ParseWith(payload, origin, repaired, result) ==
    [payload |-> payload, origin |-> origin, repaired |-> repaired,
     ok |-> ~result.raised,
     activities |-> IF result.raised THEN NULL ELSE result.value]

Parse(payload, origin, repaired) == ParseWith(payload, origin, repaired, Result(payload))

\* "[self._normalize_adb_project(activity) for activity in activities]" and
\* "[p for p in transformed_projects if p is not None]"
Transformed(activities) ==
    SelectSeq([k \in 1..Len(activities) |-> _normalize_adb_project(activities[k])],
              LAMBDA p : p # None)

\* The first of local_paths that exists: sample_projects.xml and the two
\* fixed files come before all_projects.xml.
FirstLocalFile ==
    IF local_files.earlier # NULL THEN local_files.earlier ELSE local_files.all_projects

\* The feed gave a payload: it is written to all_projects.xml (a failure
\* to write is logged and passed over) and parsed with the call p.  The
\* projects are returned, or the exception of the parse is logged and the
\* local file is next.
Fetched(payload, saved, p) ==
    /\ xml_data' = payload
    /\ local_files' = IF saved THEN [local_files EXCEPT !.all_projects = payload]
                      ELSE local_files
    /\ parses' = Append(parses, p)
    /\ IF p.ok
       THEN projects' = Transformed(p.activities) /\ pc' = "returned"
       ELSE pc' = "local" /\ UNCHANGED projects

\* The request of the IATI XML feed.  It raises or gives None, and the local
\* file is next; or it gives a payload.
FetchXml ==
    /\ pc = "fetch_xml"
    /\ \/ /\ pc' = "local"
          /\ UNCHANGED <<xml_data, local_files, parses, projects>>
       \/ \E payload \in Payloads, saved \in BOOLEAN :
            Fetched(payload, saved, Parse(payload, "feed", FALSE))
    /\ UNCHANGED <<source, total, unread, budget, local, store, rels, counters, logs,
                   calls, faults, runs, feed, item, normalized, resolver_vars,
                   request_vars>>

\* The local file is parsed with the call first; when that raises, the
\* repair pass gives fixed, and it is parsed once more with the call second.
Loaded(first, fixed, second) ==
    IF first.ok
    THEN /\ xml_data' = first.payload
         /\ parses' = Append(parses, first)
         /\ projects' = Transformed(first.activities)
    ELSE /\ xml_data' = fixed
         /\ parses' = parses \o <<first, second>>
         /\ projects' = IF second.ok THEN Transformed(second.activities) ELSE <<>>

\* _load_from_local_file: no file, and the list is empty; the file parses,
\* and its projects are returned; or the repair pass is applied to it and
\* the parse is tried once more.
LoadFromLocalFile ==
    /\ pc = "local"
    /\ pc' = "returned"
    /\ IF FirstLocalFile = NULL
       THEN projects' = <<>> /\ UNCHANGED <<xml_data, parses>>
       ELSE Loaded(Parse(FirstLocalFile, "file", FALSE), Repaired(FirstLocalFile),
                   Parse(Repaired(FirstLocalFile), "file", TRUE))
    /\ UNCHANGED <<source, total, unread, budget, local, store, rels, counters, logs,
                   calls, faults, runs, feed, item, normalized, resolver_vars,
                   request_vars, local_files>>

InitXml ==
    /\ pc = "fetch_xml"
    /\ source = "adb"
    /\ total = 0
    /\ unread = 0
    /\ budget = 0
    /\ local = NoLocal
    /\ store = {}
    /\ rels = <<>>
    /\ count = 0
    /\ skipped_count = 0
    /\ linked_count = 0
    /\ relationships_count = 0
    /\ created_entity_ids = <<>>
    /\ created_relationship_ids = <<>>
    /\ logs = <<>>
    /\ calls = <<>>
    /\ faults = 0
    /\ runs = <<>>
    /\ feed = "iati"
    /\ item = NULL
    /\ normalized = NULL
    /\ projects = <<>>
    /\ ResolverIdle
    /\ RequestIdle
    /\ xml_data = NULL
    /\ local_files \in [earlier : {NULL} \cup LocalPayloads, all_projects : {NULL}]
    /\ parses = <<>>

NextXml ==
    \/ FetchXml
    \/ LoadFromLocalFile

SpecXml == InitXml /\ [][NextXml]_vars

\* ------------------------------------------------- the creation request
\*
\* The part of the loop body that builds entity_data from the optional
\* fields of the record, down to the call of create_entity.  A dict is a
\* function from its keys.

\* d[k] = v
Put(d, k, v) == [x \in DOMAIN d \cup {k} |-> IF x = k THEN v ELSE d[x]]

\* 'if "attributes" not in entity_data: entity_data["attributes"] = {}' and
\* 'entity_data["attributes"][k] = v'
PutAttribute(d, k, v) ==
    Put(d, "attributes", Put(IF "attributes" \in DOMAIN d THEN d.attributes ELSE <<>>, k, v))

\* 'if v: attributes[k] = v', for the keys in their order
RECURSIVE PutTruthy(_, _, _)
PutTruthy(d, pairs, k) ==
    IF k > Len(pairs) THEN d
    ELSE PutTruthy(IF Truthy(pairs[k][2]) THEN Put(d, pairs[k][1], pairs[k][2]) ELSE d,
                   pairs, k + 1)

\* address.model_dump(exclude={"description"}, exclude_none=True)
AddressDict(address_text, location_id) ==
    LET description2 == [en |-> address_text, ne |-> address_text]
    IN  IF location_id = NoEntity THEN [description2 |-> description2]
        ELSE [description2 |-> description2, location_id |-> location_id]

\* The additional metadata: "attributes = {}" and the "if ...:" that follow.
Attributes(f) ==
    PutTruthy(<<>>,
              << <<"loan_amount", Get(f.loan_amount, <<>>)>>,
                 <<"grant_amount", Get(f.grant_amount, <<>>)>>,
                 <<"borrower", Get(f.borrower, <<>>)>>,
                 <<"environmental_category", Get(f.environmental_category, NULL)>>,
                 <<"project_url", Get(f.url, NULL)>>,
                 <<"document_url", Get(f.project_document_url, NULL)>>,
                 <<"milestones", Get(f.milestones, NULL)>>,
                 <<"yearly_budget_breakdown", Get(f.yearly_budget_breakdown, NULL)>>,
                 <<"cost_overruns", Get(f.cost_overruns, NULL)>>,
                 <<"reports", Get(f.reports, NULL)>>,
                 <<"verification_documents", Get(f.verification_documents, NULL)>> >>, 1)

\* entity_data as create_entity receives it: the slug, the project details
\* the optional fields feed, and the attributes.
EntityData(f) ==
    LET status == Get(f.implementation_status, <<>>)
        borrower == Get(f.borrower, <<>>)
        d0 == [slug |-> f.slug]
        d1 == IF Truthy(borrower) THEN Put(d0, "project_details", [borrower |-> borrower])
              ELSE d0
        d2 == IF Truthy(status) THEN PutAttribute(d1, "status", status) ELSE d1
        d3 == IF Truthy(f.address_text)
              THEN PutAttribute(d2, "address", AddressDict(f.address_text, f.location_id))
              ELSE d2
        attributes == Attributes(f)
    IN  IF attributes # <<>> THEN Put(d3, "attributes", attributes) ELSE d3

\* The record's fields up to "# Build attributes", and the call of create_entity.
BuildEntityData ==
    /\ pc = "request"
    /\ entity_data = Pending
    /\ entity_data' = EntityData(project_fields)
    /\ UNCHANGED <<project_fields, migration_vars, runs, feed, item, normalized,
                   projects, resolver_vars, fallback_vars>>

Active == <<"A", "c", "t", "i", "v", "e">>
RukumText == <<"R", "u", "k", "u", "m">>

\* A field of a record: the key is not there, or it holds v.
Optional(v) == {MISSING, v}

\* The optional fields a record may hold, with the address text and the
\* location the loop body has computed.
ProjectFields ==
    [slug : {<<"r", "o", "a", "d">>},
     implementation_status : {MISSING, <<>>, Active},
     address_text : {<<>>, RukumText},
     location_id : {NoEntity, Entity(<<"r", "u", "k">>, "location")},
     loan_amount : Optional(<<"1", "0">>),
     grant_amount : Optional(<<"5">>),
     borrower : Optional(<<"M", "o", "F">>),
     environmental_category : Optional(<<"B">>),
     url : Optional(<<"u">>),
     project_document_url : Optional(<<"d">>),
     milestones : Optional(<<"m">>),
     yearly_budget_breakdown : {MISSING},
     cost_overruns : {MISSING},
     reports : Optional(<<"r">>),
     verification_documents : {MISSING}]

InitRequest ==
    /\ pc = "request"
    /\ source \in {"wb", "npc"}
    /\ total = 0
    /\ unread = 0
    /\ budget = 0
    /\ local = NoLocal
    /\ store = {}
    /\ rels = <<>>
    /\ count = 0
    /\ skipped_count = 0
    /\ linked_count = 0
    /\ relationships_count = 0
    /\ created_entity_ids = <<>>
    /\ created_relationship_ids = <<>>
    /\ logs = <<>>
    /\ calls = <<>>
    /\ faults = 0
    /\ runs = <<>>
    /\ feed = "none"
    /\ item = NULL
    /\ normalized = NULL
    /\ projects = <<>>
    /\ ResolverIdle
    /\ project_fields \in ProjectFields
    /\ entity_data = Pending
    /\ FallbackIdle

NextRequest == BuildEntityData

SpecRequest == InitRequest /\ [][NextRequest]_vars

\* ------------------------------------------- the location-name resolver

\* A key or a resolution not computed yet.
NotYet == <<"<pending>">>

\* The place names records supply, before any suffix.
Bases ==
    { <<"R", "u", "k", "u", "m">>,
      <<"W", "e", "s", "t", "e", "r", "n", " ", "R", "u", "k", "u", "m">>,
      <<"A", "c", "h", "h", "a", "m">>,
      <<"A", "c", "h", "a", "m">>,
      <<"K", "a", "t", "h", "m", "a", "n", "d", "u">> }

\* The administrative terms of more than one word, and the Nepali word for a
\* sub-metropolitan city, each after the blank that follows the place name.
MultiWordTerms ==
    { <<" ", "S", "u", "b", " ", "M", "e", "t", "r", "o", "p", "o", "l", "i", "t", "a", "n", " ", "C", "i", "t", "y">>,
      <<" ", "S", "u", "b", "-", "M", "e", "t", "r", "o", "p", "o", "l", "i", "t", "a", "n", " ", "C", "i", "t", "y">>,
      <<" ", "R", "u", "r", "a", "l", " ", "M", "u", "n", "i", "c", "i", "p", "a", "l", "i", "t", "y">>,
      <<" ", "u0909", "u092A", "u092E", "u0939", "u093E", "u0928", "u0917", "u0930", "u092A", "u093E", "u0932", "u093F", "u0915", "u093E">> }

\* The administrative terms a record's location name may end in.
Tails ==
    { <<>>,
      <<" ", "D", "i", "s", "t", "r", "i", "c", "t">>,
      <<" ", "P", "r", "o", "v", "i", "n", "c", "e">>,
      <<" ", "D", "i", "s", "t", "r", "i", "c", "t", " ", "P", "r", "o", "v", "i", "n", "c", "e">>,
      <<" ", "P", "r", "o", "v", "i", "n", "c", "e", " ", "D", "i", "s", "t", "r", "i", "c", "t">>,
      <<" ", "M", "u", "n", "i", "c", "i", "p", "a", "l", "i", "t", "y">>,
      <<" ", "M", "e", "t", "r", "o", "p", "o", "l", "i", "t", "a", "n", " ", "C", "i", "t", "y">>,
      <<",", " ", "D", "i", "s", "t", "r", "i", "c", "t">> } \cup MultiWordTerms

\* The location names the records may supply.
Names == {base \o tail : base \in Bases, tail \in Tails}

LocationEntity(slug, sub_type, en) ==
    [id |-> Entity(slug, "location"), sub_type |-> sub_type,
     names |-> << [en |-> en, ne |-> NULL] >>]

\* The location entities the graph may hold.
Indexes ==
    { locations,
      << LocationEntity(<<"r", "u", "k">>, "district", <<"R", "u", "k", "u", "m">>),
         LocationEntity(<<"w", "r", "m">>, "municipality", <<"W", "e", "s", "t", "e", "r", "n", " ", "R", "u", "k", "u", "m", " ", "M", "u", "n", "i", "c", "i", "p", "a", "l", "i", "t", "y">>) >>,
      << LocationEntity(<<"a", "c", "h">>, "district", <<"A", "c", "h", "h", "a", "m", " ", "D", "i", "s", "t", "r", "i", "c", "t">>) >>,
      << LocationEntity(<<"a", "c", "h">>, "district", <<"A", "c", "h", "a", "m">>),
         LocationEntity(<<"w", "r", "k">>, "district", <<"W", "e", "s", "t", "e", "r", "n", " ", "R", "u", "k", "u", "m">>),
         LocationEntity(<<"k", "t", "p">>, "province", <<"K", "a", "t", "h", "m", "a", "n", "d", "u", " ", "P", "r", "o", "v", "i", "n", "c", "e">>) >> }

\* "p_key_norm = _normalize_location_name(province_name)" and
\* "l_key_norm = _normalize_location_name(primary_loc_name)".
NormalizeName ==
    /\ pc = "resolver"
    /\ name_key = NotYet
    /\ name_key' = _normalize_location_name(raw_name)
    /\ UNCHANGED <<raw_name, index, resolution>>
    /\ UNCHANGED <<migration_vars, runs, feed, item, normalized, projects,
                   request_vars, fallback_vars>>

\* The resolution of one supplied name against the index: pe as a province
\* name, le as a primary location name.
ResolveName ==
    /\ pc = "resolver"
    /\ resolution = Pending
    /\ resolution' = [kind |-> "resolved",
                      pe |-> ResolveProvinceIn(index, raw_name),
                      le |-> ResolvePrimaryIn(index, raw_name)]
    /\ UNCHANGED <<raw_name, index, name_key>>
    /\ UNCHANGED <<migration_vars, runs, feed, item, normalized, projects,
                   request_vars, fallback_vars>>

InitResolve ==
    /\ pc = "resolver"
    /\ source = "wb"
    /\ total = 0
    /\ unread = 0
    /\ budget = 0
    /\ local = NoLocal
    /\ store = {}
    /\ rels = <<>>
    /\ count = 0
    /\ skipped_count = 0
    /\ linked_count = 0
    /\ relationships_count = 0
    /\ created_entity_ids = <<>>
    /\ created_relationship_ids = <<>>
    /\ logs = <<>>
    /\ calls = <<>>
    /\ faults = 0
    /\ runs = <<>>
    /\ feed = "none"
    /\ item = NULL
    /\ normalized = NULL
    /\ projects = <<>>
    /\ raw_name \in Names
    /\ index \in Indexes
    /\ name_key = NotYet
    /\ resolution = Pending
    /\ RequestIdle
    /\ FallbackIdle

NextResolve ==
    \/ NormalizeName
    \/ ResolveName

SpecResolve == InitResolve /\ [][NextResolve]_vars

\* ================================================================ claims

\* The positions of calls that are calls `op` of kind `type` for record n of
\* import src.
CallsOf(src, n, op, type) ==
    {k \in 1..Len(calls) : /\ calls[k].source = src /\ calls[k].n = n
                           /\ calls[k].op = op /\ calls[k].type = type}

\* The positions of calls that created a project.
ProjectCreations ==
    {k \in 1..Len(calls) : /\ calls[k].op = "create_entity" /\ calls[k].type = "project"
                           /\ calls[k].result = "ok"}

\* Record n of import src is past its funding linkage.
PastFunding(src, n) ==
    \/ source # src
    \/ pc = "done"
    \/ local.n > n
    \/ local.n = n /\ pc \in {"agency", "agency_create", "agency_rel", "next"}

\* C1: in the World Bank import every created project gets a funding
\* relationship to the World Bank organization, whether the organization was
\* created for this record or existed already (no call failing otherwise).
C1_WorldBankFundingLinked ==
    \A k \in ProjectCreations :
        (calls[k].source = "wb" /\ PastFunding("wb", calls[k].n) /\ faults = 0)
        => \E j \in 1..Len(rels) :
              /\ rels[j].source_entity_id = Entity(calls[k].slug, "project")
              /\ rels[j].target_entity_id = Entity(wb_slug, "organization")
              /\ rels[j].intent = "FUNDED_BY"

\* C3: a record whose processing raises before or during project creation
\* does not end the run: when the run is over, every record of the running
\* import has been read and its closing line with the counters is logged.
C3_BadRecordDoesNotEndRun ==
    (pc \in {"done", "raised"} /\ total > 0)
    => /\ unread = 0
       /\ \E k \in 1..Len(logs) : logs[k].kind = "summary" /\ logs[k].source = source

\* C8: when an import completes normally, created + skipped = the number of
\* source records.
C8_EveryRecordAccounted ==
    \A k \in 1..Len(logs) :
        logs[k].kind = "summary" => logs[k].count + logs[k].skipped = logs[k].total

\* C2: when two record-processings reference one agency that does not exist
\* yet and both look its slug up before either creates it, both end with an
\* implementing-agency relationship to the one agency entity (no call failing
\* with another error).
C2_BothRunsLinkAgency ==
    \A v, w \in RunIds :
        ( /\ v # w
          /\ runs[v].pc = "next" /\ runs[w].pc = "next"
          /\ runs[v].local.implementing_agency = runs[w].local.implementing_agency
          /\ \A u \in {v, w} :
                \E k \in 1..Len(calls) :
                    /\ calls[k].n = u
                    /\ calls[k].op = "search_entity_by_slug"
                    /\ calls[k].result = "none"
          /\ faults = 0 )
        => \A u \in {v, w} :
              \E j \in 1..Len(rels) :
                  rels[j] = Relationship(
                                Entity(text_to_slug(runs[u].local.implementing_agency),
                                       "organization"),
                                RunProject(u), "AFFILIATED_WITH", "IMPLEMENTS")

\* The number of the positions of K up to k: k is the Rank-th call of K.
Rank(K, k) == Cardinality({x \in K : x <= k})

\* The slug of the first create_entity call made for the record of call k:
\* the base slug of that record.
BaseOf(k) ==
    LET K == CallsOf(calls[k].source, calls[k].n, "create_entity", "project")
    IN  calls[CHOOSE x \in K : \A y \in K : x <= y].slug

\* The j-th slug "base slug followed by -j".
Suffixed(b, j) == IF j = 1 THEN b ELSE b \o <<"-">> \o Str(j)

\* Both for every base slug of a record and every attempt a run can come to
\* (one per record, and the slugs the store held at the start), computed once.
BaseSlugs == {Built[r, src].base_slug : r \in Records, src \in {"wb", "npc"}}
Candidates == [b \in BaseSlugs, j \in 1..(MaxRecords + 2) |-> Candidate(b, j)]
SuffixedForms == [b \in BaseSlugs, j \in 1..(MaxRecords + 2) |-> Suffixed(b, j)]

\* The projects created by import src from records with base slug b.
SameBase(src, b) ==
    {k \in ProjectCreations : calls[k].source = src /\ BaseOf(k) = b}

\* Nothing but the projects SameBase(src, b) holds the base slug b or one of
\* its suffixed forms: the store held none when the import started and no
\* other entity created since took one.
OnlySameBaseHolds(src, b) ==
    LET same == SameBase(src, b)
    IN  \A e \in store :
            (\E j \in 1..MaxRecords :
                e.slug = Candidates[b, j] \/ e.slug = SuffixedForms[b, j])
            => \E k \in same : e = Entity(calls[k].slug, "project")

ImportsAndBases ==
    {<<calls[k].source, BaseOf(k)>> : k \in ProjectCreations}

\* C4 as claimed: the k-th project of n records with identical titles gets the
\* base slug followed by "-k" (the first the base slug).
C4_KthGetsBaseDashK ==
    \A sb \in ImportsAndBases :
        OnlySameBaseHolds(sb[1], sb[2])
        => \A k \in SameBase(sb[1], sb[2]) :
              calls[k].slug = SuffixedForms[sb[2], Rank(SameBase(sb[1], sb[2]), k)]

\* C4 (amended): the created slugs are pairwise distinct, the slugs tried for a
\* record are its candidates 1, 2, 3, ... in order, all but the last held
\* already, and - for a base slug that none of its own candidates equals - the
\* k-th project of the records with one title gets candidate k: the base slug
\* followed by "-k", cut to 100 characters by shortening the base.
C4_KthGetsCandidateK ==
    /\ \A i, j \in 1..Len(created_entity_ids) :
          created_entity_ids[i] = created_entity_ids[j] => i = j
    /\ \A src \in {"wb", "npc"}, n \in 1..MaxRecords :
          LET K == CallsOf(src, n, "create_entity", "project")
          IN  \A k \in K :
                 /\ calls[k].slug = Candidates[BaseOf(k), Rank(K, k)]
                 /\ Rank(K, k) < Cardinality(K) => calls[k].result = "exists"
    /\ \A sb \in ImportsAndBases :
          LET same == SameBase(sb[1], sb[2])
          IN  ( /\ OnlySameBaseHolds(sb[1], sb[2])
                /\ \A j \in 2..MaxRecords : Candidates[sb[2], j] # sb[2] )
              => \A k \in same : calls[k].slug = Candidates[sb[2], Rank(same, k)]

\* Two records with one 104-character title are both imported: the first
\* project holds the truncated slug of 100 characters, the second its first 98
\* characters followed by "-2".
C4_Witness ==
    /\ OnlySameBaseHolds(source, FinalSlug(Rep("a", 104)))
    /\ created_entity_ids =
          <<Entity(FinalSlug(Rep("a", 104)), "project"),
            Entity(Take(FinalSlug(Rep("a", 104)), 98) \o <<"-", "2">>, "project")>>

\* C5: every project slug passed to create_entity has at most 100 characters,
\* the first slug of a title of any length and each slug of the retry loop.
C5_SlugWithinLimit ==
    \A k \in 1..Len(calls) :
        (calls[k].op = "create_entity" /\ calls[k].type = "project")
        => Len(calls[k].slug) <= MaxSlugLen

\* A 104-character title meets its own truncated slug: the retry slug is
\* rebuilt from the shortened base and created.
C5_Witness ==
    \E k \in ProjectCreations :
        /\ calls[k].slug = RetrySlug(FinalSlug(Rep("a", 104)), 2)
        /\ Len(calls[k].slug) = MaxSlugLen

\* C6: the retry loop comes to an end, with the project created or with an
\* error raised; an attempt that fails with an error other than "already
\* exists" is the last attempt and ends the import with the error raised,
\* nothing else raises out of the loop, and nothing runs after the raise.
C6_RetryLoopEnds ==
    /\ (pc \in {"create", "retry"}) ~> (pc \in {"loc", "raised"})
    /\ [][ ( /\ Len(calls') > Len(calls)
             /\ calls'[Len(calls')].op = "create_entity"
             /\ calls'[Len(calls')].type = "project"
             /\ calls'[Len(calls')].result = "error" )
           => pc' = "raised" ]_vars
    /\ [][ (pc \in {"create", "retry"} /\ pc' = "raised")
           => calls'[Len(calls')].result = "error" ]_vars
    /\ [][ pc # "raised" ]_vars

\* The store held the base slug and its next two candidates: the loop went
\* round three times and ended with the project created.
C6_Witness == pc = "loc" /\ local.i = MaxHeld + 1

LoopPcs ==
    {"next", "create", "retry", "loc", "prov", "fund", "fund_lookup", "fund_rel",
     "agency", "agency_create", "agency_rel"}

\* C7: a failed linkage of a created project leaves the other linkages
\* attempted, the project in place and counted, the run going, and only the
\* relationships that were created counted.
C7_LinkagesIndependent ==
    /\ pc = "raised" => local.project_entity = NoEntity
    /\ \A k \in 1..Len(created_entity_ids) : created_entity_ids[k] \in store
    /\ pc \in LoopPcs =>
          relationships_count =
              Cardinality({k \in 1..Len(calls) :
                              /\ calls[k].source = source
                              /\ calls[k].op = "create_relationship"
                              /\ calls[k].result = "ok"})
    /\ (pc = "next" /\ local.project_entity # NoEntity) =>
          /\ count = Cardinality({k \in ProjectCreations : calls[k].source = source})
          /\ local.location_id # NoEntity =>
                CallsOf(source, local.n, "create_relationship", "LOCATED_IN") # {}
          /\ local.province_id # NoEntity =>
                CallsOf(source, local.n, "create_relationship", "LOCATED_IN_PROVINCE") # {}
          /\ \E k \in CallsOf(source, local.n, "create_entity", "organization") :
                calls[k].slug = FundingSlug(source)
          /\ Truthy(local.implementing_agency) =>
                \E k \in CallsOf(source, local.n, "search_entity_by_slug", "any") :
                    calls[k].slug = text_to_slug(local.implementing_agency)

\* The first linkage of a record failed, a later one was created, and the
\* record is through and counted.
C7_Witness ==
    /\ pc = "next"
    /\ count >= 1
    /\ \E k \in CallsOf(source, local.n, "create_relationship", "LOCATED_IN") :
          /\ calls[k].result = "error"
          /\ \E j \in CallsOf(source, local.n, "create_relationship", "IMPLEMENTS") :
                j > k /\ calls[j].result = "ok"

\* The first value that is not empty among title, name, project_name,
\* projectName of a JSON item, or the empty text.
FirstTitle(project_data) ==
    PyOr(Get(project_data.title, NULL),
    PyOr(Get(project_data.name, NULL),
    PyOr(Get(project_data.project_name, NULL),
    PyOr(Get(project_data.projectName, NULL), <<>>))))

\* C9: the JSON normalizer sets the title to the first non-empty value among
\* title, name, project_name, projectName, stripped, whether or not the item
\* carries a project identifier, and an item with such a title is emitted
\* with that title (an item whose country code cannot be upper-cased apart).
C9_TitleIndependentOfId ==
    ( /\ feed = "json"
      /\ normalized # Pending
      /\ Strip(FirstTitle(item)) # <<>>
      /\ JsonCountryCode(item) # NULL )
    => /\ Len(projects) = 1
       /\ projects[1].title = Strip(FirstTitle(item))

\* C10: for an activity of the XML parser whose title or identifier is not
\* empty the IATI normalizer emits exactly one record, titled with the title
\* or else the identifier, also when a participating-org lacks its role or
\* type or an activity-date lacks its type; an activity with neither yields
\* no record.
C10_OneRecordPerActivity ==
    (feed = "iati" /\ normalized # Pending)
    => IF Truthy(item.title) \/ Truthy(item.iati_identifier)
       THEN /\ Len(projects) = 1
            /\ projects[1].title = PyOr(item.title, item.iati_identifier)
       ELSE projects = <<>>

\* C11: location-name normalization is idempotent: normalizing the normalized
\* key of any supplied name, also of one that ends in two or more
\* administrative terms in any order, gives that key back.
C11_NormalizeIdempotent ==
    name_key # NotYet => _normalize_location_name(name_key) = name_key

\* The name as it stands before the suffix loop: trimmed, lowercased, commas
\* turned to spaces, runs of whitespace collapsed.
Cleaned(t) == JoinSplit(ReplaceComma(Lower(Strip(t))))

\* C12: normalization removes at most one administrative suffix: the key is
\* the cleaned name itself or the cleaned name with one suffix term taken off
\* its end, any further term staying in the result.
C12_AtMostOneSuffix ==
    name_key # NotYet
    => \/ name_key = Cleaned(raw_name)
       \/ \E j \in 1..Len(suffixes) : name_key = StripSuffix(Cleaned(raw_name), suffixes[j])

\* C13: for every location index and every pair (misspelling m, canonical c)
\* of the alias table, a name that normalizes to m resolves to the same
\* entity, or to no match, as the name with c in the place of m.
C13_AliasSameResolution ==
    resolution # Pending
    => \A k \in 1..Len(LOCATION_NAME_ALIASES) : \A tail \in Tails :
          LET m == LOCATION_NAME_ALIASES[k][1]
              c == LOCATION_NAME_ALIASES[k][2]
          IN  ( /\ Lower(raw_name) = m \o Lower(tail)
                /\ _normalize_location_name(raw_name) = m
                /\ _normalize_location_name(c \o tail) = c )
              => /\ resolution.le = ResolvePrimaryIn(index, c \o tail)
                 /\ resolution.pe = ResolveProvinceIn(index, c \o tail)

\* C14: the primary location name is looked up in the district index under
\* the alias-corrected normalized key, then in the district index under the
\* lowercased trimmed key, and only then in the municipality-class index:
\* whenever the district index holds an entity under either key, that entity
\* is the result.
C14_DistrictBeforeMunicipality ==
    resolution # Pending
    => LET l_key_norm == AliasOf(_normalize_location_name(raw_name))
           l_key_full == Lower(Strip(raw_name))
           district == Or(LookupIn(index, "district", l_key_norm),
                          LookupIn(index, "district", l_key_full))
       IN  district # NoLocation => resolution.le = district

\* The record in hand supplied a primary location name, or a province name,
\* that the location index does not resolve.
UnresolvedPrimary(l) == Truthy(l.location_name) /\ l.location_id = NoEntity
UnresolvedProvince(l) == Truthy(l.province_name) /\ l.province_id = NoEntity

\* C15: a record whose supplied district or province name resolves to no
\* location entity does not raise: it goes on to the creation of its project,
\* no LOCATED_IN relationship is requested for the unresolved name, the
\* linked counter is left as it was, and the loop body is left only for the
\* next record (or by an error of the creation call itself).
C15_UnresolvedNameLenient ==
    /\ []( /\ UnresolvedPrimary(local) =>
                CallsOf(source, local.n, "create_relationship", "LOCATED_IN") = {}
           /\ UnresolvedProvince(local) =>
                CallsOf(source, local.n, "create_relationship", "LOCATED_IN_PROVINCE") = {}
           /\ ( /\ UnresolvedPrimary(local) \/ UnresolvedProvince(local)
                /\ pc \in LoopPcs \ {"next", "create", "retry"} )
              => local.project_entity \in store )
    /\ [][ ( /\ pc = "next"
             /\ local'.n # local.n
             /\ UnresolvedPrimary(local') \/ UnresolvedProvince(local') )
           => /\ pc' = "create"
              /\ UnresolvedPrimary(local') => linked_count' = linked_count ]_vars
    /\ [][ ( /\ UnresolvedPrimary(local) \/ UnresolvedProvince(local)
             /\ pc \in LoopPcs \ {"next"}
             /\ pc' \notin LoopPcs \ {"next"} )
           => \/ pc' = "next" /\ count' = count + 1
              \/ /\ pc' = "raised"
                 /\ pc \in {"create", "retry"}
                 /\ calls'[Len(calls')].op = "create_entity"
                 /\ calls'[Len(calls')].result = "error" ]_vars

\* The first record named a province and a district the index does not hold:
\* its project was created, no LOCATED_IN was requested for it, nothing was
\* counted as linked, and the second record is in hand.
C15_Witness ==
    /\ pc = "create"
    /\ local.n = 2
    /\ linked_count = 0
    /\ \E k \in CallsOf(source, 1, "create_entity", "project") :
          /\ calls[k].result = "ok"
          /\ calls[k].slug = FinalSlug(Rep("a", 104))
    /\ CallsOf(source, 1, "create_relationship", "LOCATED_IN") = {}
    /\ CallsOf(source, 1, "create_relationship", "LOCATED_IN_PROVINCE") = {}

\* The record is of another country: its country code (none when the key is
\* absent) is not "NP" and its country name (none when absent) is not "nepal"
\* in any letter case.
OfAnotherCountry(r) ==
    /\ r.location.kind # "null"
    /\ r.location.country # NULL
    /\ Get(LocationInfo(r).country_code, <<>>) # <<"N", "P">>
    /\ Lower(Get(LocationInfo(r).country, <<>>)) # <<"n", "e", "p", "a", "l">>

FundingRelsOf(k) ==
    {j \in 1..Len(rels) : /\ rels[j].source_entity_id = Entity(calls[k].slug, "project")
                          /\ rels[j].intent = "FUNDED_BY"}

\* C20: in the NPC import every created project has, once its funding linkage
\* is through, exactly one funding relationship, to the government-of-nepal
\* organization, whether that organization was created for this record or
\* was found by slug after the creation failed with "already exists" (no call
\* failing otherwise); and at most one government-of-nepal organization is
\* ever created.
C20_GovernmentFundingLinked ==
    /\ \A k \in ProjectCreations :
          (calls[k].source = "npc" /\ PastFunding("npc", calls[k].n) /\ faults = 0)
          => /\ Cardinality(FundingRelsOf(k)) = 1
             /\ \A j \in FundingRelsOf(k) :
                   rels[j].target_entity_id = Entity(govn_slug, "organization")
    /\ Cardinality({k \in 1..Len(calls) : /\ calls[k].op = "create_entity"
                                          /\ calls[k].type = "organization"
                                          /\ calls[k].slug = govn_slug
                                          /\ calls[k].result = "ok"}) <= 1

\* The first NPC record created the organization; for the second its creation
\* failed with "already exists", the entity was looked up, and the second
\* project is linked to it.
C20_Witness ==
    /\ source = "npc"
    /\ pc = "agency"
    /\ local.n = 2
    /\ \E k \in CallsOf("npc", 1, "create_entity", "organization") :
          calls[k].slug = govn_slug /\ calls[k].result = "ok"
    /\ \E k \in CallsOf("npc", 2, "create_entity", "organization") :
          calls[k].slug = govn_slug /\ calls[k].result = "exists"
    /\ \E k \in CallsOf("npc", 2, "search_entity_by_slug", "any") :
          calls[k].slug = govn_slug /\ calls[k].result = "ok"
    /\ \E j \in 1..Len(rels) :
          /\ rels[j].source_entity_id = local.project_entity
          /\ rels[j].target_entity_id = Entity(govn_slug, "organization")
          /\ rels[j].intent = "FUNDED_BY"

\* A dated entry classified as a start date, or as an end date.
IsStartDate(date_info) ==
    /\ date_info.type # NULL
    /\ \/ Contains(<<"s", "t", "a", "r", "t">>, Lower(date_info.type))
       \/ Lower(date_info.type) = <<"1">>
IsEndDate(date_info) ==
    /\ date_info.type # NULL
    /\ ~IsStartDate(date_info)
    /\ \/ Contains(<<"e", "n", "d">>, Lower(date_info.type))
       \/ Lower(date_info.type) = <<"3">>

\* C17: the start_date of an emitted IATI record is the iso-date of the first
\* entry of the activity classified as a start date, later ones being
\* ignored, and its end_date that of the first entry classified as an end date.
C17_FirstDateWins ==
    (feed = "iati" /\ normalized # Pending /\ normalized # None)
    => LET activity_dates == item.activity_dates
           starts == {k \in 1..Len(activity_dates) : IsStartDate(activity_dates[k])}
           ends == {k \in 1..Len(activity_dates) : IsEndDate(activity_dates[k])}
       IN  /\ starts # {} =>
                normalized.start_date =
                    activity_dates[CHOOSE k \in starts : \A j \in starts : k <= j].iso_date
           /\ ends # {} =>
                normalized.end_date =
                    activity_dates[CHOOSE k \in ends : \A j \in ends : k <= j].iso_date

\* C18: a JSON response that is a single object with none of the collection
\* keys is handled as a batch of one raw record by the ADB JSON extractor and
\* by the NPC response processor: the object is normalized, and emitted when
\* it has a title.
C18_BareObjectIsOneRecord ==
    ( /\ feed \in {"json_response", "npc_response"}
      /\ normalized # Pending
      /\ item.shape = "dict"
      /\ item.field = "none" )
    => projects = IF feed = "json_response"
                  THEN AdbProjectsOf(item.body)
                  ELSE NpcProjectsOf(item.body)

\* C19: no field of a record emitted by the ADB JSON normalizer, the IATI
\* normalizer or the NPC normalizer is null, also when the source carries the
\* key with an explicit null or the activity lacks the element.
C19_NoNullField ==
    \A k \in 1..Len(projects) :
        /\ \A f \in DOMAIN projects[k] \ {"kind", "location"} : projects[k][f] # NULL
        /\ "location" \in DOMAIN projects[k] =>
              \A f \in DOMAIN projects[k].location : projects[k].location[f] # NULL

\* ------------------------------------------- the two imports of one run

\* C23: an error that ends the World Bank import does not keep the NPC import
\* from being carried out: a run of migrate() is never over, completed or
\* raised, with the World Bank import as the import it was in.
C23_NpcImportStillRuns ==
    pc \in {"done", "raised"} => source = "npc"

\* The closing line of an import that found its source file missing or empty.
IsSkipLine(l) == l.kind \in {"not_found", "no_projects"}

\* C26: an import whose source file is missing or holds no records makes no
\* call of the persistence layer, changes neither the entities nor the
\* relationships, and returns without raising: after the World Bank import
\* migrate() stands at the start of the NPC import, after the NPC import it is
\* done.
C26_MissingOrEmptySourceSkipped ==
    /\ [](\A k \in 1..Len(logs) :
             IsSkipLine(logs[k])
             => /\ \A c \in 1..Len(calls) : calls[c].source # logs[k].source
                /\ logs[k].source = "wb" => source = "npc")
    /\ [][ (pc = "load" /\ Len(logs') > Len(logs) /\ IsSkipLine(logs'[Len(logs')]))
           => /\ store' = store /\ rels' = rels /\ calls' = calls
              /\ UNCHANGED counters
              /\ IF source = "wb" THEN source' = "npc" /\ pc' = "load"
                 ELSE source' = "npc" /\ pc' = "done" ]_vars

\* The World Bank file was missing and the NPC import of the same run created
\* a project.
C26_Witness ==
    /\ \E k \in 1..Len(logs) : logs[k].kind = "not_found" /\ logs[k].source = "wb"
    /\ source = "npc"
    /\ created_entity_ids # <<>>

\* The positions of the create_relationship calls that returned a
\* relationship, of all imports and of the running one.
RelationshipCreations ==
    {k \in 1..Len(calls) : calls[k].op = "create_relationship" /\ calls[k].result = "ok"}
OwnRelationshipCreations == {k \in RelationshipCreations : calls[k].source = source}
OwnProjectCreations == {k \in ProjectCreations : calls[k].source = source}

\* The counters are those of the running import: it has read its source file
\* and found records in it.
CountersSetUp == pc # "load" /\ total > 0

\* The states between two records of an import, and the states in which the
\* import is over.
AtRecordBoundary == CountersSetUp /\ pc \in {"next", "done", "raised"}

\* C25: between two records and at the end of an import, count is the number
\* of retained project ids and relationships_count the number of retained
\* relationship ids; the retained ids are, in call order, the ids returned by
\* the import's successful project creations and by its successful
\* create_relationship calls.
C25_CountersMatchRetainedIds ==
    /\ AtRecordBoundary => count = Len(created_entity_ids)
    /\ CountersSetUp =>
          /\ relationships_count = Len(created_relationship_ids)
          /\ Len(created_entity_ids) = Cardinality(OwnProjectCreations)
          /\ \A k \in OwnProjectCreations :
                created_entity_ids[Rank(OwnProjectCreations, k)]
                    = Entity(calls[k].slug, "project")
          /\ Len(created_relationship_ids) = Cardinality(OwnRelationshipCreations)
          /\ \A k \in OwnRelationshipCreations :
                created_relationship_ids[Rank(OwnRelationshipCreations, k)]
                    = Rank(RelationshipCreations, k)

\* The NPC import is over with a project created and linked, after the World
\* Bank import created relationships too; one call of the NPC import failed
\* and one met a slug that was held.
C25_Witness ==
    /\ pc = "done"
    /\ count = 1
    /\ relationships_count >= 1
    /\ RelationshipCreations # OwnRelationshipCreations
    /\ \E k \in 1..Len(calls) : calls[k].source = "npc" /\ calls[k].result = "error"
    /\ \E k \in 1..Len(calls) : calls[k].source = "npc" /\ calls[k].result = "exists"

\* The calls that link a record: create_relationship, and create_entity for
\* an organization.
IsLinkingCall(c) ==
    \/ c.op = "create_relationship"
    \/ c.op = "create_entity" /\ c.type = "organization"

\* The end of a relationship request that is the project of the record: its
\* target for the implementing agency, its source otherwise.
ProjectEnd(c) == IF c.type = "IMPLEMENTS" THEN c.target_entity_id ELSE c.source_entity_id

\* C24: the calls of an import follow the order of its records (each call is
\* of the record of the call before it or of a later one, the World Bank
\* calls first): a linking call of record n comes after the successful project
\* creation of record n and before every call of a later record, and the
\* project of every relationship request is the project that creation
\* returned.
C24_CallsInRecordOrder ==
    /\ \A i \in 1..(Len(calls) - 1) :
          IF calls[i].source = calls[i + 1].source
          THEN calls[i].n <= calls[i + 1].n
          ELSE calls[i].source = "wb"
    /\ LET created == ProjectCreations
       IN  \A c \in 1..Len(calls) :
              IsLinkingCall(calls[c])
              => \E k \in created :
                    /\ k < c
                    /\ calls[k].source = calls[c].source /\ calls[k].n = calls[c].n
                    /\ calls[c].op = "create_relationship"
                       => ProjectEnd(calls[c]) = Entity(calls[k].slug, "project")

\* Two records of one import are both linked, the second after a collision
\* of its slug.
C24_Witness ==
    \E a, b, c \in 1..Len(calls) :
        /\ calls[a].op = "create_relationship" /\ calls[a].n = 1
        /\ calls[b].op = "create_entity" /\ calls[b].result = "exists"
        /\ calls[b].type = "project" /\ calls[b].n = 2
        /\ calls[c].op = "create_relationship" /\ calls[c].n = 2
        /\ calls[a].source = calls[c].source /\ calls[b].source = calls[c].source

\* C27: no relationship request has one entity as its source and its target,
\* and the source of every implementing-agency relationship is an
\* organization.
C27_AgencyIsAnotherOrganization ==
    \A c \in 1..Len(calls) :
        calls[c].op = "create_relationship"
        => /\ calls[c].source_entity_id # calls[c].target_entity_id
           /\ calls[c].type = "IMPLEMENTS" => calls[c].source_entity_id.type = "organization"

\* C29: a name that ends in an administrative term of more than one word
\* ('X Sub Metropolitan City', 'X Sub-Metropolitan City', 'X Rural
\* Municipality', or X followed by the Nepali word for a sub-metropolitan
\* city) has the whole term removed: its key is the key of the name 'X'.
C29_WholeTermRemoved ==
    \A base \in Bases, term \in MultiWordTerms :
        (raw_name = base \o term /\ name_key # NotYet)
            => name_key = _normalize_location_name(base)

\* ------------------------------------------------- the creation request

\* C28: a record with a non-empty implementation status has it in the
\* creation request under attributes.status, and a record with address
\* text has the address, with the resolved location_id, under
\* attributes.address, whatever other optional fields the record holds.
C28_StatusAndAddressKept ==
    entity_data # Pending =>
        /\ Truthy(Get(project_fields.implementation_status, <<>>))
              => /\ "attributes" \in DOMAIN entity_data
                 /\ "status" \in DOMAIN entity_data.attributes
                 /\ entity_data.attributes.status = project_fields.implementation_status
        /\ Truthy(project_fields.address_text)
              => /\ "attributes" \in DOMAIN entity_data
                 /\ "address" \in DOMAIN entity_data.attributes
                 /\ entity_data.attributes.address =
                        AddressDict(project_fields.address_text, project_fields.location_id)

\* ------------------------------------------------------ the XML fallback

\* C21: whenever a parse of a payload fails, be the payload fetched from the
\* feed or read from a local file, the repair pass is applied to that same
\* payload and its output is parsed, once; and when that parse fails too,
\* the scraper returns no record.
C21_FailedParseRepairedOnce ==
    pc = "returned" =>
        \A k \in 1..Len(parses) :
            (~parses[k].ok /\ ~parses[k].repaired) =>
                LET again == {j \in (k + 1)..Len(parses) :
                                 /\ parses[j].repaired
                                 /\ parses[j].payload = Repaired(parses[k].payload)}
                IN  /\ Cardinality(again) = 1
                    /\ \A j \in again : ~parses[j].ok => projects = <<>>

\* C22: a document whose elements are all in a namespace gives the same
\* activities as the document without the namespace.
C22_NamespaceIndependent ==
    \A k \in 1..Len(parses) : \A d \in Documents :
        parses[k].payload = InNamespace(d) => parses[k].activities = Result(d).value

\* The text spans and the tags of a payload, in turn: the text before the
\* first tag, the first tag, the text after it, and so on to the text after
\* the last tag.
RECURSIVE Pieces(_, _)
Pieces(s, last_end) ==
    IF NextTag(s, last_end) = <<0, 0>> THEN <<SubSeq(s, last_end, Len(s))>>
    ELSE <<SubSeq(s, last_end, NextTag(s, last_end)[1] - 1),
           SubSeq(s, NextTag(s, last_end)[1], NextTag(s, last_end)[2])>>
             \o Pieces(s, NextTag(s, last_end)[2] + 1)

\* A text span with every '&' that starts no entity and every '>' replaced
\* by its entity, and nothing else changed.
EscapedAt(s, k) ==
    IF s[k] = "&" /\ ~EntityNameAt(s, k + 1) THEN amp
    ELSE IF s[k] = ">" THEN gt ELSE <<s[k]>>
Escaped(s) == ConcatMap(s, EscapedAt, 1)

\* What the repair pass is to make of the pieces before: a tag (an even
\* piece) as it is, a text span escaped.
RepairedAsSaid(before, after) ==
    /\ Len(after) = Len(before)
    /\ \A i \in 1..Len(before) :
          after[i] = IF i % 2 = 0 THEN before[i] ELSE Escaped(before[i])

\* C30: the repair pass copies the tags, replaces in the text spans every
\* bare '&' and '>' by its entity and leaves the valid entities as they
\* are; its output is not changed by a second pass; and the repaired
\* '<desc>Cost & benefit > analysis</desc>' parses to that text.
C30_RepairEscapesTextOnly ==
    \A k \in 2..Len(parses) :
        parses[k].repaired =>
            /\ RepairedAsSaid(Pieces(parses[k - 1].payload, 1), Pieces(parses[k].payload, 1))
            /\ _fix_common_xml_issues(parses[k].payload) = parses[k].payload
            /\ parses[k - 1].payload = CostBenefit
                  => fromstring(parses[k].payload).text = Unescape(Escaped(Take(Drop(CostBenefit, 6), 25)))

====
